---- MODULE Spec2Model ----
(***************************************************************************)
(* A model of the ociaitoopenai Traefik middleware: the OpenAI -> OCI      *)
(* GenAI request transform, the OCI -> OpenAI response transforms and the  *)
(* ServeHTTP interception logic around them.                               *)
(*                                                                         *)
(* The repository holds three revisions of the plugin file:                *)
(*   revision 1  src/plugin.go lines 1-430   (CORS, codec, fixed query)    *)
(*   revision 2  src/plugin.go lines 432-749 (no host rewrite)             *)
(*   revision 3  src/unnamed/part_000        (host rewrite, query merge)   *)
(* The model carries the revision in the variable `variant`, fixed at      *)
(* construction, and runs every request against each of them.              *)
(*                                                                         *)
(* Conventions.  A byte string is a sequence of atoms; an atom is a block  *)
(* of bytes of one kind (a JSON text, a compressed stream, plain text, a   *)
(* single byte).  Concatenation of byte strings is \o.  Role names are     *)
(* sequences of characters, so that case folding and substring search are  *)
(* computed.  Decimal numbers are integers in units of 10^-9.              *)
(***************************************************************************)
EXTENDS Integers, Sequences, FiniteSets, TLC

VARIABLES
    variant,    \* which revision of the plugin file is running
    config,     \* Proxy.config: [CompartmentID, Region], read-only after New
    pc,         \* position of the ServeHTTP invocation
    route,      \* the branch ServeHTTP took for the inbound request
    inbound,    \* the request as the caller sent it
    req,        \* the *http.Request object, mutated in place by the plugin
    fwd,        \* the downstream handler's view: sequence of [req, writer]
    wrapped,    \* the capturing responseWriter
    caller,     \* the real http.ResponseWriter, i.e. what the caller receives
    origModel,  \* originalModel returned by processOpenAIRequest
    ops,        \* the transform-layer steps the plugin has performed, in order
    tin,        \* input of the pure request transform (SpecTransform)
    tout        \* its output

vars == <<variant, config, pc, route, inbound, req, fwd, wrapped, caller,
          origModel, ops, tin, tout>>

(***************************************************************************)
(* Bounds of the model.                                                    *)
(***************************************************************************)
MaxMsgs == 3          \* longest message list given to the pure transform
MaxWriteHeader == 2   \* WriteHeader calls the downstream handler may make

(***************************************************************************)
(* Generic helpers on sequences.                                           *)
(***************************************************************************)
SeqsUpTo(S, n) == UNION {[1..k -> S] : k \in 0..n}

IsPrefix(p, s) == Len(p) <= Len(s) /\ SubSeq(s, 1, Len(p)) = p

\* strings.HasSuffix, on sequences
HasSuffix(s, suffix) ==
    /\ Len(suffix) <= Len(s)
    /\ SubSeq(s, Len(s) - Len(suffix) + 1, Len(s)) = suffix

(***************************************************************************)
(* Byte strings.                                                           *)
(***************************************************************************)
JsonAtom(v) == [a |-> "json", j |-> v]         \* the JSON text of value v
TextAtom(s) == [a |-> "text", s |-> s]         \* plain text, two bytes or more
ByteAtom == [a |-> "byte"]                     \* one byte that is no JSON text
GzipAtom(b) == [a |-> "gzip", z |-> b]         \* a gzip member holding b
DeflateAtom(b) == [a |-> "deflate", z |-> b]   \* a raw deflate stream holding b

RECURSIVE ByteLen(_)
\* len(b) for a byte string; block sizes are nominal, a single byte is 1
ByteLen(b) ==
    IF b = <<>> THEN 0
    ELSE LET x == Head(b)
             n == CASE x.a = "byte" -> 1
                    [] x.a = "text" -> 8
                    [] x.a = "json" -> 40
                    [] x.a = "gzip" -> 18 + ByteLen(x.z)
                    [] x.a = "deflate" -> 5 + ByteLen(x.z)
         IN n + ByteLen(Tail(b))

RECURSIVE ConcatInner(_)
ConcatInner(b) == IF b = <<>> THEN <<>> ELSE Head(b).z \o ConcatInner(Tail(b))

Ok(v) == [ok |-> TRUE, val |-> v]
Err(v) == [ok |-> FALSE, val |-> v]

(***************************************************************************)
(* HTTP headers: a map from the header names the plugin touches to their   *)
(* value; "" stands for an absent header (Header.Get returns "" for it).   *)
(***************************************************************************)
HeaderKeys == {"Content-Type", "Content-Length", "Content-Encoding",
               "Access-Control-Allow-Origin", "Access-Control-Allow-Methods",
               "Access-Control-Allow-Headers", "Access-Control-Max-Age",
               "X-Content-Type-Options"}

NoHeaders == [k \in HeaderKeys |-> ""]

HeaderSet(h, k, v) == [h EXCEPT ![k] = v]

(***************************************************************************)
(* The codec of revision 1.                                                *)
(***************************************************************************)
\* gzip.NewReader + io.ReadAll: a sequence of gzip members decodes to the
\* concatenation of their contents; anything else is an error
gzipRead(body) ==
    IF body # <<>> /\ \A i \in 1..Len(body) : body[i].a = "gzip"
    THEN Ok(ConcatInner(body))
    ELSE Err(<<>>)

\* flate.NewReader + io.ReadAll: reads one deflate stream from the front and
\* stops at its final block; anything else in front is an error
flateRead(body) ==
    IF body # <<>> /\ body[1].a = "deflate" THEN Ok(body[1].z) ELSE Err(<<>>)

\* a decoder that opens a gzip reader on any body
decompressResponseNoShortcut(body, headers) ==
    LET contentEncoding == headers["Content-Encoding"] IN
    IF contentEncoding = "" THEN Ok(body)
    ELSE CASE contentEncoding = "gzip" -> gzipRead(body)
           [] contentEncoding = "deflate" -> flateRead(body)
           [] OTHER -> Ok(body)

decompressResponse(body, headers) ==
    LET contentEncoding == headers["Content-Encoding"] IN
    IF contentEncoding = "" THEN Ok(body)
    ELSE CASE contentEncoding = "gzip" ->
                IF ByteLen(body) < 2 THEN Ok(body) ELSE gzipRead(body)
           [] contentEncoding = "deflate" -> flateRead(body)
           [] OTHER -> Ok(body)

\* an encoder whose deflate case is missing: the body goes out as it is
compressResponseGzipOnly(body, originalHeaders) ==
    LET contentEncoding == originalHeaders["Content-Encoding"] IN
    IF contentEncoding = "" THEN Ok(body)
    ELSE CASE contentEncoding = "gzip" -> Ok(<<GzipAtom(body)>>)
           [] OTHER -> Ok(body)

\* writing to a bytes.Buffer cannot fail, so neither branch returns an error
compressResponse(body, originalHeaders) ==
    LET contentEncoding == originalHeaders["Content-Encoding"] IN
    IF contentEncoding = "" THEN Ok(body)
    ELSE CASE contentEncoding = "gzip" -> Ok(<<GzipAtom(body)>>)
           [] contentEncoding = "deflate" -> Ok(<<DeflateAtom(body)>>)
           [] OTHER -> Ok(body)

(***************************************************************************)
(* pkg/types: the Go structs, and encoding/json on them.  A JSON value is  *)
(* a record tagged t with the keys of the JSON object; json.Unmarshal into *)
(* a struct fails on text that is no JSON and on a JSON value that is no   *)
(* object, ignores unknown keys and leaves absent fields zero.             *)
(***************************************************************************)
IsJSON(b) == Len(b) = 1 /\ b[1].a = "json"

\* the nearest float32 of a decimal, in units of 10^-9 (json.Unmarshal into a
\* float32 field); tabulated for the decimals of the model
Float32(d) ==
    CASE d = 700000000 -> 699999988
      [] d = 900000000 -> 899999976
      [] d = 200000000 -> 200000003
      [] d = 100000000 -> 100000001
      [] OTHER -> d

ZeroChatCompletionRequest ==
    [Model |-> "", Messages |-> <<>>, MaxTokens |-> 0, Temperature |-> 0,
     TopP |-> 0, FrequencyPenalty |-> 0, PresencePenalty |-> 0]

ChatCompletionMessage(m) == [Role |-> m.role, Content |-> m.content]

UnmarshalChatCompletionRequest(b) ==
    IF ~IsJSON(b) THEN Err(ZeroChatCompletionRequest)
    ELSE LET v == b[1].j IN
         CASE v.t = "array" -> Err(ZeroChatCompletionRequest)
           [] v.t = "chatreq" ->
                Ok([Model |-> v.model,
                    Messages |-> [i \in 1..Len(v.messages) |->
                                      ChatCompletionMessage(v.messages[i])],
                    MaxTokens |-> v.max_tokens,
                    Temperature |-> Float32(v.temperature),
                    TopP |-> Float32(v.topP),
                    FrequencyPenalty |-> Float32(v.frequencyPenalty),
                    PresencePenalty |-> Float32(v.presencePenalty)])
           [] OTHER -> Ok(ZeroChatCompletionRequest)

\* json.Marshal of an OracleCloudRequest: the struct under its json tags
MarshalOracleCloudRequest(r) ==
    <<JsonAtom(
        [t |-> "ocireq",
         compartmentId |-> r.CompartmentID,
         servingMode |-> [modelId |-> r.ServingMode.ModelID,
                          servingType |-> r.ServingMode.ServingType],
         chatRequest |-> [maxTokens |-> r.ChatRequest.MaxTokens,
                          temperature |-> r.ChatRequest.Temperature,
                          frequencyPenalty |-> r.ChatRequest.FrequencyPenalty,
                          presencePenalty |-> r.ChatRequest.PresencePenalty,
                          topP |-> r.ChatRequest.TopP,
                          topK |-> r.ChatRequest.TopK,
                          isStream |-> r.ChatRequest.IsStream,
                          streamOptions |-> [isIncludeUsage |->
                              r.ChatRequest.StreamOptions.IsIncludeUsage],
                          chatHistory |-> r.ChatRequest.ChatHistory,
                          message |-> r.ChatRequest.Message,
                          apiFormat |-> r.ChatRequest.APIFormat]])>>

ZeroOracleCloudResponse ==
    [ModelID |-> "", ModelVersion |-> "",
     ChatResponse |-> [Text |-> "", FinishReason |-> "",
                       Usage |-> [PromptTokens |-> 0, CompletionTokens |-> 0,
                                  TotalTokens |-> 0]]]

UnmarshalOracleCloudResponse(b) ==
    IF ~IsJSON(b) THEN Err(ZeroOracleCloudResponse)
    ELSE LET v == b[1].j IN
         CASE v.t = "array" -> Err(ZeroOracleCloudResponse)
           [] v.t = "ociresp" ->
                Ok([ModelID |-> v.modelId, ModelVersion |-> v.modelVersion,
                    ChatResponse |->
                        [Text |-> v.chatResponse.text,
                         FinishReason |-> v.chatResponse.finishReason,
                         Usage |->
                            [PromptTokens |-> v.chatResponse.usage.promptTokens,
                             CompletionTokens |->
                                 v.chatResponse.usage.completionTokens,
                             TotalTokens |-> v.chatResponse.usage.totalTokens]]])
           [] OTHER -> Ok(ZeroOracleCloudResponse)

OCIModel(m) ==
    [ID |-> m.id, DisplayName |-> m.displayName, Vendor |-> m.vendor,
     Capabilities |-> m.capabilities, LifecycleState |-> m.lifecycleState,
     TimeCreated |-> m.timeCreated]

ZeroOCIModelsResponse == [Items |-> <<>>]

UnmarshalOCIModelsResponse(b) ==
    IF ~IsJSON(b) THEN Err(ZeroOCIModelsResponse)
    ELSE LET v == b[1].j IN
         CASE v.t = "array" -> Err(ZeroOCIModelsResponse)
           [] v.t = "ocimodels" ->
                Ok([Items |-> [i \in 1..Len(v.items) |-> OCIModel(v.items[i])]])
           [] OTHER -> Ok(ZeroOCIModelsResponse)

MarshalChatCompletionResponse(r) ==
    <<JsonAtom(
        [t |-> "openairesp", id |-> r.ID, object |-> r.Object,
         created |-> r.Created, model |-> r.Model,
         choices |-> [i \in 1..Len(r.Choices) |->
                        [index |-> r.Choices[i].Index,
                         message |-> [role |-> r.Choices[i].Message.Role,
                                      content |-> r.Choices[i].Message.Content],
                         finish_reason |-> r.Choices[i].FinishReason]],
         usage |-> [prompt_tokens |-> r.Usage.PromptTokens,
                    completion_tokens |-> r.Usage.CompletionTokens,
                    total_tokens |-> r.Usage.TotalTokens]])>>

MarshalOpenAIModelsResponse(r) ==
    <<JsonAtom(
        [t |-> "openaimodels", object |-> r.Object,
         data |-> [i \in 1..Len(r.Data) |->
                     [id |-> r.Data[i].ID, object |-> r.Data[i].Object,
                      created |-> r.Data[i].Created,
                      owned_by |-> r.Data[i].OwnedBy]]])>>

(***************************************************************************)
(* internal/transform.                                                     *)
(***************************************************************************)
RECURSIVE processMessagesPrepend(_, _, _, _)
\* a loop that puts each earlier message in front of the history
processMessagesPrepend(messages, i, chatHistory, currentMessage) ==
    IF i > Len(messages)
    THEN [chatHistory |-> chatHistory, currentMessage |-> currentMessage]
    ELSE IF i = Len(messages)
         THEN processMessagesPrepend(messages, i + 1, chatHistory,
                                     messages[i].Content)
         ELSE processMessagesPrepend(messages, i + 1,
                                     <<[role |-> messages[i].Role,
                                        content |-> messages[i].Content]>>
                                         \o chatHistory,
                                     currentMessage)

RECURSIVE processMessages(_, _, _, _)
\* the for-range loop of ToOracleCloudRequest, from index i (1-based) on:
\* the last message becomes the current message, every other one is
\* appended to the chat history as {"role": msg.Role, "content": msg.Content}
processMessages(messages, i, chatHistory, currentMessage) ==
    IF i > Len(messages)
    THEN [chatHistory |-> chatHistory, currentMessage |-> currentMessage]
    ELSE IF i = Len(messages)
         THEN processMessages(messages, i + 1, chatHistory,
                              messages[i].Content)
         ELSE processMessages(messages, i + 1,
                              Append(chatHistory,
                                     [role |-> messages[i].Role,
                                      content |-> messages[i].Content]),
                              currentMessage)

\* the zero value of types.ChatRequest
ZeroChatRequest ==
    [MaxTokens |-> 0, Temperature |-> 0, FrequencyPenalty |-> 0,
     PresencePenalty |-> 0, TopP |-> 0, TopK |-> 0, IsStream |-> FALSE,
     StreamOptions |-> [IsIncludeUsage |-> FALSE], ChatHistory |-> <<>>,
     Message |-> "", APIFormat |-> ""]

\* float64(x) of a float32 x is exact: the value does not change
Float64(x) == x

\* a transformation that takes the compartment from the request's model
\* field when the message list is not empty
ToOracleCloudRequestCallerCompartment(cfg, openAIReq) ==
    IF Len(openAIReq.Messages) = 0
    THEN [CompartmentID |-> cfg.CompartmentID,
          ServingMode |-> [ModelID |-> openAIReq.Model,
                           ServingType |-> "ON_DEMAND"],
          ChatRequest |-> [ZeroChatRequest EXCEPT
                              !.MaxTokens = openAIReq.MaxTokens,
                              !.Temperature = Float64(openAIReq.Temperature),
                              !.Message = "",
                              !.APIFormat = "COHERE"]]
    ELSE LET loop == processMessages(openAIReq.Messages, 1, <<>>, "") IN
         [CompartmentID |-> openAIReq.Model,
          ServingMode |-> [ModelID |-> openAIReq.Model,
                           ServingType |-> "ON_DEMAND"],
          ChatRequest |-> [ZeroChatRequest EXCEPT
                              !.MaxTokens = openAIReq.MaxTokens,
                              !.Temperature = Float64(openAIReq.Temperature),
                              !.FrequencyPenalty =
                                  Float64(openAIReq.FrequencyPenalty),
                              !.PresencePenalty =
                                  Float64(openAIReq.PresencePenalty),
                              !.TopP = Float64(openAIReq.TopP),
                              !.IsStream = FALSE,
                              !.StreamOptions = [IsIncludeUsage |-> FALSE],
                              !.ChatHistory = loop.chatHistory,
                              !.Message = loop.currentMessage,
                              !.APIFormat = "COHERE"]]

\* a transformation that picks the dialect from the model name and takes
\* the serving type for dedicated clusters
ToOracleCloudRequestByModel(cfg, openAIReq) ==
    LET apiFormat == IF openAIReq.Model = "cohere.command-a" THEN "COHERE"
                     ELSE "GENERIC"
    IN
    IF Len(openAIReq.Messages) = 0
    THEN [CompartmentID |-> cfg.CompartmentID,
          ServingMode |-> [ModelID |-> openAIReq.Model,
                           ServingType |-> "ON_DEMAND"],
          ChatRequest |-> [ZeroChatRequest EXCEPT
                              !.MaxTokens = openAIReq.MaxTokens,
                              !.Temperature = Float64(openAIReq.Temperature),
                              !.Message = "",
                              !.APIFormat = apiFormat]]
    ELSE LET loop == processMessages(openAIReq.Messages, 1, <<>>, "") IN
         [CompartmentID |-> cfg.CompartmentID,
          ServingMode |-> [ModelID |-> openAIReq.Model,
                           ServingType |-> "ON_DEMAND"],
          ChatRequest |-> [ZeroChatRequest EXCEPT
                              !.MaxTokens = openAIReq.MaxTokens,
                              !.Temperature = Float64(openAIReq.Temperature),
                              !.FrequencyPenalty =
                                  Float64(openAIReq.FrequencyPenalty),
                              !.PresencePenalty =
                                  Float64(openAIReq.PresencePenalty),
                              !.TopP = Float64(openAIReq.TopP),
                              !.IsStream = FALSE,
                              !.StreamOptions = [IsIncludeUsage |-> FALSE],
                              !.ChatHistory = loop.chatHistory,
                              !.Message = loop.currentMessage,
                              !.APIFormat = apiFormat]]

ToOracleCloudRequest(cfg, openAIReq) ==
    IF Len(openAIReq.Messages) = 0
    THEN [CompartmentID |-> cfg.CompartmentID,
          ServingMode |-> [ModelID |-> openAIReq.Model,
                           ServingType |-> "ON_DEMAND"],
          ChatRequest |-> [ZeroChatRequest EXCEPT
                              !.MaxTokens = openAIReq.MaxTokens,
                              !.Temperature = Float64(openAIReq.Temperature),
                              !.Message = "",
                              !.APIFormat = "COHERE"]]
    ELSE LET loop == processMessages(openAIReq.Messages, 1, <<>>, "") IN
         [CompartmentID |-> cfg.CompartmentID,
          ServingMode |-> [ModelID |-> openAIReq.Model,
                           ServingType |-> "ON_DEMAND"],
          ChatRequest |-> [ZeroChatRequest EXCEPT
                              !.MaxTokens = openAIReq.MaxTokens,
                              !.Temperature = Float64(openAIReq.Temperature),
                              !.FrequencyPenalty =
                                  Float64(openAIReq.FrequencyPenalty),
                              !.PresencePenalty =
                                  Float64(openAIReq.PresencePenalty),
                              !.TopP = Float64(openAIReq.TopP),
                              !.IsStream = FALSE,
                              !.StreamOptions = [IsIncludeUsage |-> FALSE],
                              !.ChatHistory = loop.chatHistory,
                              !.Message = loop.currentMessage,
                              !.APIFormat = "COHERE"]]

\* a mapping that hands an unrecognised reason through
mapFinishReasonPassUnknown(oracleReason) ==
    CASE oracleReason = "COMPLETE" -> "stop"
      [] oracleReason = "MAX_TOKENS" -> "length"
      [] oracleReason = "CONTENT_FILTER" -> "content_filter"
      [] OTHER -> oracleReason

mapFinishReason(oracleReason) ==
    CASE oracleReason = "COMPLETE" -> "stop"
      [] oracleReason = "MAX_TOKENS" -> "length"
      [] oracleReason = "CONTENT_FILTER" -> "content_filter"
      [] OTHER -> "stop"

\* a transformation that always recomputes the total
ToOpenAIResponseAlwaysSum(oracleResp, originalModel, id, now) ==
    LET finishReason == mapFinishReason(oracleResp.ChatResponse.FinishReason)
        responseText == oracleResp.ChatResponse.Text
        assistantMessage == [Role |-> "assistant", Content |-> responseText]
        choice == [Index |-> 0, Message |-> assistantMessage,
                   FinishReason |-> finishReason]
        usage0 == [PromptTokens |-> oracleResp.ChatResponse.Usage.PromptTokens,
                   CompletionTokens |->
                       oracleResp.ChatResponse.Usage.CompletionTokens,
                   TotalTokens |-> oracleResp.ChatResponse.Usage.TotalTokens]
        usage == IF usage0.PromptTokens > 0 \/ usage0.CompletionTokens > 0
                 THEN [usage0 EXCEPT !.TotalTokens =
                          usage0.PromptTokens + usage0.CompletionTokens]
                 ELSE usage0
        model1 == IF originalModel = "" THEN oracleResp.ModelID
                  ELSE originalModel
        model == IF model1 = "" THEN "unknown" ELSE model1
    IN [ID |-> id, Object |-> "chat.completion", Created |-> now,
        Model |-> model, Choices |-> <<choice>>, Usage |-> usage]

\* a transformation that prefers the model id of the backend
ToOpenAIResponseBackendModel(oracleResp, originalModel, id, now) ==
    LET finishReason == mapFinishReason(oracleResp.ChatResponse.FinishReason)
        responseText == oracleResp.ChatResponse.Text
        assistantMessage == [Role |-> "assistant", Content |-> responseText]
        choice == [Index |-> 0, Message |-> assistantMessage,
                   FinishReason |-> finishReason]
        usage0 == [PromptTokens |-> oracleResp.ChatResponse.Usage.PromptTokens,
                   CompletionTokens |->
                       oracleResp.ChatResponse.Usage.CompletionTokens,
                   TotalTokens |-> oracleResp.ChatResponse.Usage.TotalTokens]
        usage == IF usage0.TotalTokens = 0 /\
                    (usage0.PromptTokens > 0 \/ usage0.CompletionTokens > 0)
                 THEN [usage0 EXCEPT !.TotalTokens =
                          usage0.PromptTokens + usage0.CompletionTokens]
                 ELSE usage0
        model1 == IF oracleResp.ModelID = "" THEN originalModel
                  ELSE oracleResp.ModelID
        model == IF model1 = "" THEN "unknown" ELSE model1
    IN [ID |-> id, Object |-> "chat.completion", Created |-> now,
        Model |-> model, Choices |-> <<choice>>, Usage |-> usage]

\* a transformation that returns no choice for an empty text
ToOpenAIResponseSkipEmpty(oracleResp, originalModel, id, now) ==
    LET finishReason == mapFinishReason(oracleResp.ChatResponse.FinishReason)
        responseText == oracleResp.ChatResponse.Text
        assistantMessage == [Role |-> "assistant", Content |-> responseText]
        choice == [Index |-> 0, Message |-> assistantMessage,
                   FinishReason |-> finishReason]
        usage0 == [PromptTokens |-> oracleResp.ChatResponse.Usage.PromptTokens,
                   CompletionTokens |->
                       oracleResp.ChatResponse.Usage.CompletionTokens,
                   TotalTokens |-> oracleResp.ChatResponse.Usage.TotalTokens]
        usage == IF usage0.TotalTokens = 0 /\
                    (usage0.PromptTokens > 0 \/ usage0.CompletionTokens > 0)
                 THEN [usage0 EXCEPT !.TotalTokens =
                          usage0.PromptTokens + usage0.CompletionTokens]
                 ELSE usage0
        model1 == IF originalModel = "" THEN oracleResp.ModelID
                  ELSE originalModel
        model == IF model1 = "" THEN "unknown" ELSE model1
    IN [ID |-> id, Object |-> "chat.completion", Created |-> now,
        Model |-> model, Choices |-> IF responseText = "" THEN <<>> ELSE <<choice>>, Usage |-> usage]

\* id is the value generateCompletionID draws, now is time.Now().Unix()
ToOpenAIResponse(oracleResp, originalModel, id, now) ==
    LET finishReason == mapFinishReason(oracleResp.ChatResponse.FinishReason)
        responseText == oracleResp.ChatResponse.Text
        assistantMessage == [Role |-> "assistant", Content |-> responseText]
        choice == [Index |-> 0, Message |-> assistantMessage,
                   FinishReason |-> finishReason]
        usage0 == [PromptTokens |-> oracleResp.ChatResponse.Usage.PromptTokens,
                   CompletionTokens |->
                       oracleResp.ChatResponse.Usage.CompletionTokens,
                   TotalTokens |-> oracleResp.ChatResponse.Usage.TotalTokens]
        usage == IF usage0.TotalTokens = 0 /\
                    (usage0.PromptTokens > 0 \/ usage0.CompletionTokens > 0)
                 THEN [usage0 EXCEPT !.TotalTokens =
                          usage0.PromptTokens + usage0.CompletionTokens]
                 ELSE usage0
        model1 == IF originalModel = "" THEN oracleResp.ModelID
                  ELSE originalModel
        model == IF model1 = "" THEN "unknown" ELSE model1
    IN [ID |-> id, Object |-> "chat.completion", Created |-> now,
        Model |-> model, Choices |-> <<choice>>, Usage |-> usage]

\* time.Parse(time.RFC3339, s) followed by Unix(), tabulated for the
\* timestamps of the model; any other string fails to parse
parseRFC3339(s) ==
    CASE s = "2023-01-01T00:00:00Z" -> Ok(1672531200)
      [] s = "1970-01-01T00:00:10Z" -> Ok(10)
      [] OTHER -> Err(0)

supportsChat(capabilities) ==
    \E i \in 1..Len(capabilities) : capabilities[i] = "CHAT"

RECURSIVE convertModelsAnyState(_, _, _)
\* a loop that does not look at the lifecycle state
convertModelsAnyState(models, i, now) ==
    IF i > Len(models) THEN <<>>
    ELSE LET ociModel == models[i]
             parsed == parseRFC3339(ociModel.TimeCreated)
             created == IF parsed.ok THEN parsed.val ELSE now
             openAIModel == [ID |-> ociModel.ID, Object |-> "model",
                             Created |-> created, OwnedBy |-> ociModel.Vendor]
         IN IF supportsChat(ociModel.Capabilities)
            THEN <<openAIModel>> \o convertModelsAnyState(models, i + 1, now)
            ELSE convertModelsAnyState(models, i + 1, now)

RECURSIVE convertModelsDisplayName(_, _, _)
\* a loop that takes the display name as the id
convertModelsDisplayName(models, i, now) ==
    IF i > Len(models) THEN <<>>
    ELSE LET ociModel == models[i]
             parsed == parseRFC3339(ociModel.TimeCreated)
             created == IF parsed.ok THEN parsed.val ELSE now
             openAIModel == [ID |-> ociModel.DisplayName, Object |-> "model",
                             Created |-> created, OwnedBy |-> ociModel.Vendor]
         IN IF supportsChat(ociModel.Capabilities) /\
               ociModel.LifecycleState = "ACTIVE"
            THEN <<openAIModel>> \o convertModelsDisplayName(models, i + 1, now)
            ELSE convertModelsDisplayName(models, i + 1, now)

RECURSIVE convertModelsSkipUnparsed(_, _, _)
\* a loop that leaves out a model whose timeCreated does not parse
convertModelsSkipUnparsed(models, i, now) ==
    IF i > Len(models) THEN <<>>
    ELSE LET ociModel == models[i]
             parsed == parseRFC3339(ociModel.TimeCreated)
             openAIModel == [ID |-> ociModel.ID, Object |-> "model",
                             Created |-> parsed.val,
                             OwnedBy |-> ociModel.Vendor]
         IN IF supportsChat(ociModel.Capabilities) /\
               ociModel.LifecycleState = "ACTIVE" /\ parsed.ok
            THEN <<openAIModel>> \o
                 convertModelsSkipUnparsed(models, i + 1, now)
            ELSE convertModelsSkipUnparsed(models, i + 1, now)

RECURSIVE convertModels(_, _, _)
\* the loop of ToOpenAIModelsResponse over the backend models, from index i
convertModels(models, i, now) ==
    IF i > Len(models) THEN <<>>
    ELSE LET ociModel == models[i]
             parsed == parseRFC3339(ociModel.TimeCreated)
             created == IF parsed.ok THEN parsed.val ELSE now
             openAIModel == [ID |-> ociModel.ID, Object |-> "model",
                             Created |-> created, OwnedBy |-> ociModel.Vendor]
         IN IF supportsChat(ociModel.Capabilities) /\
               ociModel.LifecycleState = "ACTIVE"
            THEN <<openAIModel>> \o convertModels(models, i + 1, now)
            ELSE convertModels(models, i + 1, now)

ToOpenAIModelsResponse(ociResp, now) ==
    [Object |-> "list", Data |-> convertModels(ociResp.Items, 1, now)]

(***************************************************************************)
(* net/http as the plugin uses it.                                         *)
(*                                                                         *)
(* A request is [Method, Scheme, Host, Path, RawQuery, Header, Body,       *)
(* ContentLength, RequestURI].  Host is the sequence of its dot-separated  *)
(* labels and Path the sequence of its slash-separated segments, so        *)
(* "/v1/models" is <<"v1", "models">> and ends with "/models" exactly when *)
(* its last segment is "models".  RawQuery is the query string as the map  *)
(* url.ParseQuery reads from it: parameter name -> sequence of values.     *)
(* Body is [read, bytes]: read tells whether io.ReadAll and Close succeed. *)
(***************************************************************************)
NoQuery == [k \in {} |-> <<>>]

\* url.Values.Has and url.Values.Set
QueryHas(q, k) == k \in DOMAIN q

QuerySet(q, k, v) ==
    [x \in (DOMAIN q) \cup {k} |-> IF x = k THEN <<v>> ELSE q[x]]

\* fmt.Sprintf("generativeai.%s.oci.oraclecloud.com", region)
ociHost(region) == <<"generativeai", region, "oci", "oraclecloud", "com">>

\* the real http.ResponseWriter.  status 0: no header written yet.  The
\* first WriteHeader fixes the status and the headers sent; later calls are
\* ignored by net/http.  by = "proxy" counts the plugin's own calls.
NewCaller ==
    [status |-> 0, hdr |-> NoHeaders, sent |-> NoHeaders, body |-> <<>>,
     nWriteHeader |-> 0, nWrite |-> 0, proxyWriteHeader |-> 0,
     proxyWrite |-> 0, proxyHeader |-> 0]

realWriteHeader(w, code, by) ==
    [w EXCEPT !.status = IF w.status = 0 THEN code ELSE @,
              !.sent = IF w.status = 0 THEN w.hdr ELSE @,
              !.nWriteHeader = @ + 1,
              !.proxyWriteHeader = IF by = "proxy" THEN @ + 1 ELSE @]

\* Write sends an implicit 200 header when none was written
realWrite(w, b, by) ==
    [w EXCEPT !.status = IF w.status = 0 THEN 200 ELSE @,
              !.sent = IF w.status = 0 THEN w.hdr ELSE @,
              !.body = @ \o b,
              !.nWrite = @ + 1,
              !.proxyWrite = IF by = "proxy" THEN @ + 1 ELSE @]

realHeaderSet(w, k, v, by) ==
    [w EXCEPT !.hdr = HeaderSet(@, k, v),
              !.proxyHeader = IF by = "proxy" THEN @ + 1 ELSE @]

\* http.Error(w, msg, code)
httpError(w, msg, code) ==
    LET w1 == realHeaderSet(w, "Content-Length", "", "proxy")
        w2 == realHeaderSet(w1, "Content-Type", "text/plain; charset=utf-8",
                            "proxy")
        w3 == realHeaderSet(w2, "X-Content-Type-Options", "nosniff", "proxy")
    IN realWrite(realWriteHeader(w3, code, "proxy"), <<TextAtom(msg)>>,
                 "proxy")

\* the capturing wrapper; its Header() is the real writer's header map
newResponseWriter ==
    [statusCode |-> 200, body |-> <<>>, nWriteHeader |-> 0, nWrite |-> 0]

\* a WriteHeader that keeps the first code, as net/http's own writer does
responseWriterWriteHeaderFirst(rw, code) ==
    [rw EXCEPT !.statusCode = IF rw.nWriteHeader = 0 THEN code ELSE @,
               !.nWriteHeader = @ + 1]

responseWriterWriteHeader(rw, code) ==
    [rw EXCEPT !.statusCode = code, !.nWriteHeader = @ + 1]

responseWriterWrite(rw, b) ==
    [rw EXCEPT !.body = @ \o b, !.nWrite = @ + 1]

addCORSHeaders(w) ==
    LET w1 == realHeaderSet(w, "Access-Control-Allow-Origin", "*", "proxy")
        w2 == realHeaderSet(w1, "Access-Control-Allow-Methods", "*", "proxy")
        w3 == realHeaderSet(w2, "Access-Control-Allow-Headers", "*", "proxy")
    IN realHeaderSet(w3, "Access-Control-Max-Age", "86400", "proxy")

isModelsRequest(r) == r.Method = "GET" /\ HasSuffix(r.Path, <<"models">>)

\* a chat test that forgets the method
isChatRequestAnyMethod(r) == HasSuffix(r.Path, <<"chat", "completions">>)

isChatRequest(r) ==
    r.Method = "POST" /\ HasSuffix(r.Path, <<"chat", "completions">>)

shouldProcessRequest(r) ==
    IF isChatRequest(r) THEN TRUE
    ELSE IF isModelsRequest(r) THEN TRUE
    ELSE FALSE

(***************************************************************************)
(* processOpenAIRequest, one definition per revision.  Each returns        *)
(* [err, msg, model, req, rw]: whether an error is returned and its text,  *)
(* the original model name, the request and the real writer afterwards.    *)
(***************************************************************************)
ChatActionPath == <<"20231130", "actions", "chat">>

ModelsPath == <<"20231130", "models">>

\* a parse step that returns the error without answering 400
readOpenAIRequestNoReply(rw, r) ==
    IF r.Body.read = "readerr"
    THEN [err |-> TRUE, msg |-> "failed to read request body", rw |-> rw,
          openAIReq |-> ZeroChatCompletionRequest]
    ELSE IF r.Body.read = "closeerr"
    THEN [err |-> TRUE, msg |-> "failed to close request body", rw |-> rw,
          openAIReq |-> ZeroChatCompletionRequest]
    ELSE LET parsed == UnmarshalChatCompletionRequest(r.Body.bytes) IN
         IF ~parsed.ok
         THEN [err |-> TRUE, msg |-> "json: cannot unmarshal", rw |-> rw,
               openAIReq |-> ZeroChatCompletionRequest]
         ELSE [err |-> FALSE, msg |-> "", rw |-> rw,
               openAIReq |-> parsed.val]

\* the part the three revisions share: read, close and parse the body
readOpenAIRequest(rw, r) ==
    IF r.Body.read = "readerr"
    THEN [err |-> TRUE, msg |-> "failed to read request body", rw |-> rw,
          openAIReq |-> ZeroChatCompletionRequest]
    ELSE IF r.Body.read = "closeerr"
    THEN [err |-> TRUE, msg |-> "failed to close request body", rw |-> rw,
          openAIReq |-> ZeroChatCompletionRequest]
    ELSE LET parsed == UnmarshalChatCompletionRequest(r.Body.bytes) IN
         IF ~parsed.ok
         THEN [err |-> TRUE, msg |-> "json: cannot unmarshal",
               rw |-> httpError(rw, "Failed to parse OpenAI request", 400),
               openAIReq |-> ZeroChatCompletionRequest]
         ELSE [err |-> FALSE, msg |-> "", rw |-> rw,
               openAIReq |-> parsed.val]

processOpenAIRequest1(cfg, rw, r) ==
    LET rd == readOpenAIRequest(rw, r) IN
    IF rd.err
    THEN [err |-> TRUE, msg |-> rd.msg, model |-> "", req |-> r, rw |-> rd.rw]
    ELSE LET openAIReq == [rd.openAIReq EXCEPT !.MaxTokens = 1000]
             ociReq == ToOracleCloudRequest(cfg, openAIReq)
             ociBody == MarshalOracleCloudRequest(ociReq)
         IN [err |-> FALSE, msg |-> "", model |-> openAIReq.Model, rw |-> rw,
             req |-> [r EXCEPT
                        !.Body = [read |-> "ok", bytes |-> ociBody],
                        !.ContentLength = ByteLen(ociBody),
                        !.RequestURI = "",
                        !.Scheme = "https",
                        !.Host = ociHost(cfg.Region),
                        !.Path = ChatActionPath,
                        !.RawQuery = NoQuery,
                        !.Header = HeaderSet(@, "Content-Type",
                                             "application/json")]]

processOpenAIRequest2(cfg, rw, r) ==
    LET rd == readOpenAIRequest(rw, r) IN
    IF rd.err
    THEN [err |-> TRUE, msg |-> rd.msg, model |-> "", req |-> r, rw |-> rd.rw]
    ELSE LET openAIReq == rd.openAIReq
             ociReq == ToOracleCloudRequest(cfg, openAIReq)
             ociBody == MarshalOracleCloudRequest(ociReq)
         IN [err |-> FALSE, msg |-> "", model |-> openAIReq.Model, rw |-> rw,
             req |-> [r EXCEPT
                        !.Body = [read |-> "ok", bytes |-> ociBody],
                        !.ContentLength = ByteLen(ociBody),
                        !.Scheme = "https",
                        !.Path = ChatActionPath,
                        !.RawQuery = NoQuery,
                        !.RequestURI = "",
                        !.Header = IF @["Content-Type"] = ""
                                   THEN HeaderSet(@, "Content-Type",
                                                  "application/json")
                                   ELSE @]]

processOpenAIRequest3(cfg, rw, r) ==
    LET rd == readOpenAIRequest(rw, r) IN
    IF rd.err
    THEN [err |-> TRUE, msg |-> rd.msg, model |-> "", req |-> r, rw |-> rd.rw]
    ELSE LET openAIReq == rd.openAIReq
             ociReq == ToOracleCloudRequest(cfg, openAIReq)
             ociBody == MarshalOracleCloudRequest(ociReq)
         IN [err |-> FALSE, msg |-> "", model |-> openAIReq.Model, rw |-> rw,
             req |-> [r EXCEPT
                        !.Body = [read |-> "ok", bytes |-> ociBody],
                        !.ContentLength = ByteLen(ociBody),
                        !.Host = ociHost(cfg.Region),
                        !.Scheme = "https",
                        !.Path = ChatActionPath,
                        !.RawQuery = NoQuery,
                        !.RequestURI = "",
                        !.Header = IF @["Content-Type"] = ""
                                   THEN HeaderSet(@, "Content-Type",
                                                  "application/json")
                                   ELSE @]]

processOpenAIRequest(v, cfg, rw, r) ==
    CASE v = 1 -> processOpenAIRequest1(cfg, rw, r)
      [] v = 2 -> processOpenAIRequest2(cfg, rw, r)
      [] v = 3 -> processOpenAIRequest3(cfg, rw, r)

(***************************************************************************)
(* processModelsRequest up to the call of the next handler: the rewrite of *)
(* the request, one definition per revision.                               *)
(***************************************************************************)
modelsRequest1(cfg, r) ==
    [r EXCEPT !.RequestURI = "",
              !.Scheme = "https",
              !.Host = ociHost(cfg.Region),
              !.Path = ModelsPath,
              !.RawQuery = [k \in {"compartmentId", "capability"} |->
                              IF k = "compartmentId"
                              THEN <<cfg.CompartmentID>> ELSE <<"CHAT">>],
              !.Header = HeaderSet(@, "Content-Type", "application/json")]

modelsQuery(cfg, q) ==
    LET query == IF ~QueryHas(q, "capability")
                 THEN QuerySet(q, "capability", "CHAT") ELSE q
    IN QuerySet(query, "compartmentId", cfg.CompartmentID)

modelsRequest2(cfg, r) ==
    [r EXCEPT !.Scheme = "https",
              !.Path = ModelsPath,
              !.RawQuery = modelsQuery(cfg, @),
              !.RequestURI = ""]

modelsRequest3(cfg, r) ==
    [r EXCEPT !.Host = ociHost(cfg.Region),
              !.Scheme = "https",
              !.Path = ModelsPath,
              !.RawQuery = modelsQuery(cfg, @),
              !.RequestURI = ""]

modelsRequest(v, cfg, r) ==
    CASE v = 1 -> modelsRequest1(cfg, r)
      [] v = 2 -> modelsRequest2(cfg, r)
      [] v = 3 -> modelsRequest3(cfg, r)

(***************************************************************************)
(* The response side.  Each definition returns [err, msg, rw, ops]:        *)
(* whether an error is returned and its text, the real writer afterwards   *)
(* and the transform-layer steps that ran.  wrappedWriter.Header() is the  *)
(* header map of the real writer (the wrapper embeds it), so the loop that *)
(* copies the wrapper's headers to the real writer changes nothing.        *)
(***************************************************************************)
\* a relay that replaces the captured status by 502
writeCapturedBadGateway(originalWriter, wrappedWriter) ==
    realWrite(realWriteHeader(originalWriter, 502, "proxy"),
              wrappedWriter.body, "proxy")

\* the non-200 branch and the fail-open branch: status and body as captured
writeCaptured(originalWriter, wrappedWriter) ==
    realWrite(realWriteHeader(originalWriter, wrappedWriter.statusCode,
                              "proxy"),
              wrappedWriter.body, "proxy")

\* a fallback that surfaces the translation error as a 500
failOpenInternalError(rw, wrappedWriter) ==
    httpError(rw, "failed to process response", 500)

\* ServeHTTP's fallback when processResponse returns an error: the
\* original response is written
failOpen(rw, wrappedWriter) == writeCaptured(rw, wrappedWriter)

\* a tail that sets the content headers after WriteHeader, too late for
\* them to be sent
writeTransformed1LateHeaders(originalWriter, finalBody) ==
    LET w0 == realWriteHeader(originalWriter, 200, "proxy")
        w1 == realHeaderSet(w0, "Content-Type", "application/json", "proxy")
        w2 == realHeaderSet(w1, "Content-Length",
                            ToString(ByteLen(finalBody)), "proxy")
        w3 == realHeaderSet(w2, "Access-Control-Allow-Origin", "*", "proxy")
    IN realWrite(w3, finalBody, "proxy")

\* the tail of revision 1: content headers, CORS header, status 200, body
writeTransformed1(originalWriter, finalBody) ==
    LET w1 == realHeaderSet(originalWriter, "Content-Type",
                            "application/json", "proxy")
        w2 == realHeaderSet(w1, "Content-Length",
                            ToString(ByteLen(finalBody)), "proxy")
        w3 == realHeaderSet(w2, "Access-Control-Allow-Origin", "*", "proxy")
    IN realWrite(realWriteHeader(w3, 200, "proxy"), finalBody, "proxy")

\* the tail of revisions 2 and 3
writeTransformed2(originalWriter, openAIBody) ==
    LET w1 == realHeaderSet(originalWriter, "Content-Type",
                            "application/json", "proxy")
        w2 == realHeaderSet(w1, "Content-Length",
                            ToString(ByteLen(openAIBody)), "proxy")
    IN realWrite(realWriteHeader(w2, 200, "proxy"), openAIBody, "proxy")

processResponse1(originalWriter, wrappedWriter, originalModel, id, now) ==
    IF wrappedWriter.statusCode # 200
    THEN [err |-> FALSE, msg |-> "", ops |-> <<>>,
          rw |-> writeCaptured(originalWriter, wrappedWriter)]
    ELSE LET dec == decompressResponse(wrappedWriter.body,
                                       originalWriter.hdr) IN
         IF ~dec.ok
         THEN [err |-> TRUE, msg |-> "failed to decompress response",
               ops |-> <<"decode">>, rw |-> originalWriter]
         ELSE LET parsed == UnmarshalOracleCloudResponse(dec.val) IN
              IF ~parsed.ok
              THEN [err |-> TRUE, msg |-> "failed to parse OCI GenAI response",
                    ops |-> <<"decode", "parse">>, rw |-> originalWriter]
              ELSE LET openAIResp == ToOpenAIResponse(parsed.val,
                                                      originalModel, id, now)
                       openAIBody == MarshalChatCompletionResponse(openAIResp)
                       comp == compressResponse(openAIBody,
                                                originalWriter.hdr)
                   IN IF ~comp.ok
                      THEN [err |-> TRUE,
                            msg |-> "failed to compress response",
                            ops |-> <<"decode", "parse", "transform",
                                      "serialize", "encode">>,
                            rw |-> originalWriter]
                      ELSE [err |-> FALSE, msg |-> "",
                            ops |-> <<"decode", "parse", "transform",
                                      "serialize", "encode", "write">>,
                            rw |-> writeTransformed1(originalWriter,
                                                     comp.val)]

\* revisions 2 and 3 are the same text
processResponse2(originalWriter, wrappedWriter, originalModel, id, now) ==
    IF wrappedWriter.statusCode # 200
    THEN [err |-> FALSE, msg |-> "", ops |-> <<>>,
          rw |-> writeCaptured(originalWriter, wrappedWriter)]
    ELSE LET parsed == UnmarshalOracleCloudResponse(wrappedWriter.body) IN
         IF ~parsed.ok
         THEN [err |-> TRUE, msg |-> "failed to parse OCI GenAI response",
               ops |-> <<"parse">>, rw |-> originalWriter]
         ELSE LET openAIResp == ToOpenAIResponse(parsed.val, originalModel,
                                                 id, now)
                  openAIBody == MarshalChatCompletionResponse(openAIResp)
              IN [err |-> FALSE, msg |-> "",
                  ops |-> <<"parse", "transform", "serialize", "write">>,
                  rw |-> writeTransformed2(originalWriter, openAIBody)]

processResponse(v, originalWriter, wrappedWriter, originalModel, id, now) ==
    IF v = 1
    THEN processResponse1(originalWriter, wrappedWriter, originalModel, id,
                          now)
    ELSE processResponse2(originalWriter, wrappedWriter, originalModel, id,
                          now)

\* processModelsRequest after the next handler has returned
modelsResponse1(rw, wrappedWriter, now) ==
    IF wrappedWriter.statusCode # 200
    THEN [err |-> FALSE, msg |-> "", ops |-> <<>>,
          rw |-> writeCaptured(rw, wrappedWriter)]
    ELSE LET dec == decompressResponse(wrappedWriter.body, rw.hdr) IN
         IF ~dec.ok
         THEN [err |-> TRUE, msg |-> "failed to decompress response",
               ops |-> <<"decode">>, rw |-> rw]
         ELSE LET parsed == UnmarshalOCIModelsResponse(dec.val) IN
              IF ~parsed.ok
              THEN [err |-> TRUE,
                    msg |-> "failed to parse OCI models response",
                    ops |-> <<"decode", "parse">>, rw |-> rw]
              ELSE LET openAIResp == ToOpenAIModelsResponse(parsed.val, now)
                       openAIBody == MarshalOpenAIModelsResponse(openAIResp)
                       comp == compressResponse(openAIBody, rw.hdr)
                   IN IF ~comp.ok
                      THEN [err |-> TRUE,
                            msg |-> "failed to compress response",
                            ops |-> <<"decode", "parse", "transform",
                                      "serialize", "encode">>,
                            rw |-> rw]
                      ELSE [err |-> FALSE, msg |-> "",
                            ops |-> <<"decode", "parse", "transform",
                                      "serialize", "encode", "write">>,
                            rw |-> writeTransformed1(rw, comp.val)]

modelsResponse2(rw, wrappedWriter, now) ==
    IF wrappedWriter.statusCode # 200
    THEN [err |-> FALSE, msg |-> "", ops |-> <<>>,
          rw |-> writeCaptured(rw, wrappedWriter)]
    ELSE LET parsed == UnmarshalOCIModelsResponse(wrappedWriter.body) IN
         IF ~parsed.ok
         THEN [err |-> TRUE, msg |-> "failed to parse OCI models response",
               ops |-> <<"parse">>, rw |-> rw]
         ELSE LET openAIResp == ToOpenAIModelsResponse(parsed.val, now)
                  openAIBody == MarshalOpenAIModelsResponse(openAIResp)
              IN [err |-> FALSE, msg |-> "",
                  ops |-> <<"parse", "transform", "serialize", "write">>,
                  rw |-> writeTransformed2(rw, openAIBody)]

modelsResponse(v, rw, wrappedWriter, now) ==
    IF v = 1 THEN modelsResponse1(rw, wrappedWriter, now)
    ELSE modelsResponse2(rw, wrappedWriter, now)

(***************************************************************************)
(* The inputs of the model: configurations, inbound requests, and what the *)
(* downstream handler may answer.                                          *)
(***************************************************************************)
Configs ==
    {[CompartmentID |-> "ocid1.compartment.test", Region |-> "us-ashburn-1"],
     [CompartmentID |-> "ocid1.compartment.prod", Region |-> "us-chicago-1"]}

Revisions == {1, 2, 3}

RoleUser == <<"u", "s", "e", "r">>
RoleSuperUser == <<"S", "u", "p", "e", "r", "U", "s", "e", "r">>
RoleUsers == <<"U", "s", "e", "r", "s">>
RoleAssistant == <<"a", "s", "s", "i", "s", "t", "a", "n", "t">>
RoleSystem == <<"s", "y", "s", "t", "e", "m">>

ChatDoc(model, messages, maxTokens, temperature, topP, compartmentId) ==
    [t |-> "chatreq", model |-> model, messages |-> messages,
     max_tokens |-> maxTokens, temperature |-> temperature, topP |-> topP,
     frequencyPenalty |-> 0, presencePenalty |-> 0,
     compartmentId |-> compartmentId]

HelloMessages == <<[role |-> RoleUser, content |-> "Hello, world!"]>>

Conversation ==
    <<[role |-> RoleSystem, content |-> "You are a helpful assistant."],
      [role |-> RoleSuperUser, content |-> "Hello!"],
      [role |-> RoleAssistant, content |-> "Hi there!"],
      [role |-> RoleUser, content |-> "How are you?"]>>

DefaultDoc == ChatDoc("test-model", HelloMessages, 100, 700000000, 0, "")

ArrayDoc == [t |-> "array"]

ChatRespDoc ==
    [t |-> "ociresp", modelId |-> "cohere.command-a", modelVersion |-> "1.0",
     chatResponse |-> [text |-> "Hello! How can I help you?",
                       finishReason |-> "COMPLETE",
                       usage |-> [promptTokens |-> 10, completionTokens |-> 6,
                                  totalTokens |-> 16]]]

ChatRespDocSparse ==
    [t |-> "ociresp", modelId |-> "", modelVersion |-> "",
     chatResponse |-> [text |-> "", finishReason |-> "MAX_TOKENS",
                       usage |-> [promptTokens |-> 10, completionTokens |-> 6,
                                  totalTokens |-> 0]]]

ModelsDoc ==
    [t |-> "ocimodels",
     items |-> <<[id |-> "ocid1.model.a", displayName |-> "cohere.command-a",
                  vendor |-> "cohere", capabilities |-> <<"CHAT">>,
                  lifecycleState |-> "ACTIVE",
                  timeCreated |-> "2023-01-01T00:00:00Z"],
                 [id |-> "ocid1.model.b", displayName |-> "embed-v3",
                  vendor |-> "cohere", capabilities |-> <<"TEXT_EMBEDDINGS">>,
                  lifecycleState |-> "ACTIVE",
                  timeCreated |-> "1970-01-01T00:00:10Z"],
                 [id |-> "ocid1.model.c", displayName |-> "llama-old",
                  vendor |-> "meta", capabilities |-> <<"TEXT", "CHAT">>,
                  lifecycleState |-> "DELETED",
                  timeCreated |-> "2023-01-01T00:00:00Z"],
                 [id |-> "ocid1.model.d", displayName |-> "llama-3",
                  vendor |-> "meta", capabilities |-> <<"TEXT", "CHAT">>,
                  lifecycleState |-> "ACTIVE",
                  timeCreated |-> "yesterday"]>>]

\* the inbound chat bodies: well-formed requests, and text that does not
\* parse as one
ChatBodies ==
    {<<JsonAtom(DefaultDoc)>>,
     <<JsonAtom(ChatDoc("test-model", <<>>, 50, 500000000, 0, ""))>>,
     <<JsonAtom(ChatDoc("cohere.command-a", Conversation, 0, 0, 900000000,
                        "ocid1.compartment.evil"))>>,
     <<JsonAtom(ChatDoc("", HelloMessages, 1000, 200000000, 0, ""))>>,
     <<JsonAtom(ChatRespDoc)>>,
     <<JsonAtom(ArrayDoc)>>,
     <<TextAtom("not json")>>,
     <<JsonAtom(DefaultDoc), ByteAtom>>,
     <<>>}

Request(method, path, query, contentType, body) ==
    [Method |-> method, Scheme |-> "http", Host |-> <<"proxy", "local">>,
     Path |-> path, RawQuery |-> query,
     Header |-> HeaderSet(NoHeaders, "Content-Type", contentType),
     Body |-> body, ContentLength |-> ByteLen(body.bytes),
     RequestURI |-> "set"]

OkBody(b) == [read |-> "ok", bytes |-> b]

ChatPath == <<"v1", "chat", "completions">>

ModelsListPath == <<"v1", "models">>

LimitQuery == [k \in {"limit"} |-> <<"5">>]

ModelQueries ==
    {NoQuery, LimitQuery,
     [k \in {"capability"} |-> <<"TEXT_EMBEDDINGS">>],
     [k \in {"compartmentId"} |-> <<"ocid1.compartment.evil">>],
     [k \in {"capability", "compartmentId", "limit"} |->
         CASE k = "capability" -> <<"TEXT_EMBEDDINGS">>
           [] k = "compartmentId" -> <<"ocid1.compartment.evil">>
           [] k = "limit" -> <<"5", "6">>]}

Requests ==
    \* every method on every kind of path
    {Request(m, p, NoQuery, "application/json",
             OkBody(<<JsonAtom(DefaultDoc)>>)) :
        m \in {"GET", "POST", "OPTIONS", "PUT"},
        p \in {<<"v1", "foo">>, ChatPath, ModelsListPath,
               <<"v1", "models", "">>, <<"chat", "completions", "x">>}}
    \cup
    \* chat requests with every body
    {Request("POST", ChatPath, NoQuery, "application/json", OkBody(b)) :
        b \in ChatBodies}
    \cup
    {Request("POST", ChatPath, NoQuery, "application/json",
             [read |-> k, bytes |-> <<JsonAtom(DefaultDoc)>>]) :
        k \in {"readerr", "closeerr"}}
    \cup
    \* chat requests with other headers and a query string
    {Request("POST", ChatPath, q, ct, OkBody(<<JsonAtom(DefaultDoc)>>)) :
        q \in {NoQuery, LimitQuery}, ct \in {"", "text/plain"}}
    \cup
    \* models requests with every query
    {Request("GET", ModelsListPath, q, ct, OkBody(<<>>)) :
        q \in ModelQueries, ct \in {"", "text/plain"}}

\* what the downstream handler may write, as whole bodies; it writes them
\* one atom per Write call
DownstreamBodies ==
    {<<ByteAtom>>,
     <<TextAtom("upstream error")>>,
     <<JsonAtom(ChatRespDoc)>>,
     <<JsonAtom(ChatRespDocSparse)>>,
     <<JsonAtom(ModelsDoc)>>,
     <<JsonAtom(ArrayDoc)>>,
     <<JsonAtom(ChatRespDoc), TextAtom("trailer")>>,
     <<GzipAtom(<<JsonAtom(ChatRespDoc)>>)>>,
     <<GzipAtom(<<JsonAtom(ModelsDoc)>>)>>,
     <<GzipAtom(<<TextAtom("upstream error")>>)>>,
     <<DeflateAtom(<<JsonAtom(ChatRespDoc)>>)>>,
     <<DeflateAtom(<<JsonAtom(ModelsDoc)>>)>>}

DownstreamAtoms == UNION {{s[i] : i \in 1..Len(s)} : s \in DownstreamBodies}

StatusCodes == {200, 404, 500}

Encodings == {"gzip", "deflate", "br"}

CompletionIDs == {"chatcmpl-aaaa", "chatcmpl-bbbb"}

Times == {1700000000, 1700000001}

(***************************************************************************)
(* ServeHTTP.  One invocation: the entry up to the call of the next        *)
(* handler, the next handler's calls on the writer it was given, and the   *)
(* rest of ServeHTTP once the next handler has returned.                   *)
(***************************************************************************)
\* the branch ServeHTTP takes, revision 1
dispatch1(r) ==
    IF r.Method = "OPTIONS" THEN "options"
    ELSE IF isModelsRequest(r) THEN "models"
    ELSE IF isChatRequest(r) THEN "chat"
    ELSE "pass"

\* the branch ServeHTTP takes, revisions 2 and 3
dispatch2(r) ==
    IF ~shouldProcessRequest(r) THEN "pass"
    ELSE IF isModelsRequest(r) THEN "models"
    ELSE "chat"

dispatch(v, r) == IF v = 1 THEN dispatch1(r) ELSE dispatch2(r)

Init ==
    /\ variant \in Revisions
    /\ config \in Configs
    /\ pc = "idle"
    /\ route = "none"
    /\ inbound = Request("GET", <<>>, NoQuery, "", OkBody(<<>>))
    /\ req = inbound
    /\ fwd = <<>>
    /\ wrapped = newResponseWriter
    /\ caller = NewCaller
    /\ origModel = ""
    /\ ops = <<>>
    /\ tin = ZeroChatCompletionRequest
    /\ tout = <<>>

\* ServeHTTP from its entry to the call of p.next.ServeHTTP, or to its
\* return when the next handler is not called
ServeHTTP(r) ==
    /\ pc = "idle"
    /\ inbound' = r
    /\ LET branch == dispatch(variant, r) IN
       /\ route' = branch
       /\ CASE branch = "options" ->
                 /\ caller' = realWriteHeader(addCORSHeaders(caller), 200,
                                              "proxy")
                 /\ pc' = "done"
                 /\ UNCHANGED <<fwd, wrapped, origModel, ops>>
                 /\ req' = r
            [] branch = "models" ->
                 /\ req' = modelsRequest(variant, config, r)
                 /\ wrapped' = newResponseWriter
                 /\ fwd' = Append(fwd, [req |-> req', writer |-> "wrapped"])
                 /\ pc' = "next"
                 /\ UNCHANGED <<caller, origModel, ops>>
            [] branch = "chat" ->
                 LET res == processOpenAIRequest(variant, config, caller, r)
                 IN IF res.err
                    THEN /\ caller' = httpError(res.rw, res.msg, 500)
                         /\ pc' = "done"
                         /\ req' = res.req
                         /\ ops' = IF r.Body.read = "ok"
                                   THEN <<"inbound parse">> ELSE <<>>
                         /\ UNCHANGED <<fwd, wrapped, origModel>>
                    ELSE /\ caller' = res.rw
                         /\ req' = res.req
                         /\ origModel' = res.model
                         /\ wrapped' = newResponseWriter
                         /\ fwd' = Append(fwd, [req |-> res.req,
                                                writer |-> "wrapped"])
                         /\ ops' = <<"inbound parse", "request transform",
                                     "request serialize">>
                         /\ pc' = "next"
            [] branch = "pass" ->
                 /\ req' = r
                 /\ fwd' = Append(fwd, [req |-> r, writer |-> "real"])
                 /\ pc' = "next"
                 /\ UNCHANGED <<caller, wrapped, origModel, ops>>
    /\ UNCHANGED <<variant, config, tin, tout>>

\* ServeHTTP handing the real writer to the next handler on every branch
sinkReal == "real"

\* the writer the running next handler holds
sink == fwd[Len(fwd)].writer

\* the next handler sets a Content-Encoding header; through the wrapper
\* too this is the real writer's header map
NextSetHeader(enc) ==
    /\ pc = "next"
    /\ caller.hdr["Content-Encoding"] = ""
    /\ caller' = realHeaderSet(caller, "Content-Encoding", enc, "next")
    /\ UNCHANGED <<variant, config, pc, route, inbound, req, fwd, wrapped,
                   origModel, ops, tin, tout>>

NextWriteHeader(code) ==
    /\ pc = "next"
    /\ IF sink = "wrapped"
       THEN /\ wrapped.nWriteHeader < MaxWriteHeader
            /\ wrapped' = responseWriterWriteHeader(wrapped, code)
            /\ UNCHANGED caller
       ELSE /\ caller.nWriteHeader < MaxWriteHeader
            /\ caller' = realWriteHeader(caller, code, "next")
            /\ UNCHANGED wrapped
    /\ UNCHANGED <<variant, config, pc, route, inbound, req, fwd, origModel,
                   ops, tin, tout>>

NextWrite(atom) ==
    /\ pc = "next"
    /\ IF sink = "wrapped"
       THEN /\ \E s \in DownstreamBodies :
                  IsPrefix(Append(wrapped.body, atom), s)
            /\ wrapped' = responseWriterWrite(wrapped, <<atom>>)
            /\ UNCHANGED caller
       ELSE /\ \E s \in DownstreamBodies :
                  IsPrefix(Append(caller.body, atom), s)
            /\ caller' = realWrite(caller, <<atom>>, "next")
            /\ UNCHANGED wrapped
    /\ UNCHANGED <<variant, config, pc, route, inbound, req, fwd, origModel,
                   ops, tin, tout>>

NextReturn ==
    /\ pc = "next"
    /\ pc' = "returned"
    /\ UNCHANGED <<variant, config, route, inbound, req, fwd, wrapped, caller,
                   origModel, ops, tin, tout>>

\* the chat branch resuming without waiting for the next handler's return
FinishChatBeforeReturn(id, now) ==
    /\ pc \in {"next", "returned"}
    /\ route = "chat"
    /\ LET res == processResponse(variant, caller, wrapped, origModel, id,
                                  now)
       IN /\ caller' = IF res.err THEN failOpen(res.rw, wrapped)
                       ELSE res.rw
          /\ ops' = ops \o res.ops
    /\ pc' = "done"
    /\ UNCHANGED <<variant, config, route, inbound, req, fwd, wrapped,
                   origModel, tin, tout>>

\* the chat branch after the next handler: processResponse, and the
\* original response when it returns an error
FinishChat(id, now) ==
    /\ pc = "returned"
    /\ route = "chat"
    /\ LET res == processResponse(variant, caller, wrapped, origModel, id,
                                  now)
       IN /\ caller' = IF res.err THEN failOpen(res.rw, wrapped)
                       ELSE res.rw
          /\ ops' = ops \o res.ops
    /\ pc' = "done"
    /\ UNCHANGED <<variant, config, route, inbound, req, fwd, wrapped,
                   origModel, tin, tout>>

\* the models branch after the next handler: the rest of
\* processModelsRequest, and http.Error when it returns an error
FinishModels(now) ==
    /\ pc = "returned"
    /\ route = "models"
    /\ LET res == modelsResponse(variant, caller, wrapped, now)
       IN /\ caller' = IF res.err THEN httpError(res.rw, res.msg, 500)
                       ELSE res.rw
          /\ ops' = ops \o res.ops
    /\ pc' = "done"
    /\ UNCHANGED <<variant, config, route, inbound, req, fwd, wrapped,
                   origModel, tin, tout>>

\* the pass-through branch: ServeHTTP returns when the next handler does
FinishPass ==
    /\ pc = "returned"
    /\ route = "pass"
    /\ pc' = "done"
    /\ UNCHANGED <<variant, config, route, inbound, req, fwd, wrapped, caller,
                   origModel, ops, tin, tout>>

Next ==
    \/ \E r \in Requests : ServeHTTP(r)
    \/ \E enc \in Encodings : NextSetHeader(enc)
    \/ \E code \in StatusCodes : NextWriteHeader(code)
    \/ \E atom \in DownstreamAtoms : NextWrite(atom)
    \/ NextReturn
    \/ \E id \in CompletionIDs, now \in Times : FinishChat(id, now)
    \/ \E now \in Times : FinishModels(now)
    \/ FinishPass

Spec == Init /\ [][Next]_vars

(***************************************************************************)
(* The request transform on its own: ToOracleCloudRequest applied to       *)
(* every request with a message list of at most MaxMsgs messages.          *)
(***************************************************************************)
MessagePool ==
    {[Role |-> RoleUser, Content |-> "Hello"],
     [Role |-> RoleSuperUser, Content |-> "Hi"],
     [Role |-> RoleUsers, Content |-> "Hey"],
     [Role |-> RoleAssistant, Content |-> "Yo"]}

TransformInputs ==
    {[Model |-> m, Messages |-> msgs, MaxTokens |-> p[1], Temperature |-> p[2],
      TopP |-> p[3], FrequencyPenalty |-> p[4], PresencePenalty |-> p[5]] :
        m \in {"gpt-4", "cohere.command-a"},
        msgs \in SeqsUpTo(MessagePool, MaxMsgs),
        p \in {<<0, 0, 0, 0, 0>>,
               <<1000, 500000000, 899999976, 200000003, 100000001>>}}

InitTransform ==
    /\ variant \in Revisions
    /\ config \in Configs
    /\ pc = "t-in"
    /\ route = "none"
    /\ inbound = Request("GET", <<>>, NoQuery, "", OkBody(<<>>))
    /\ req = inbound
    /\ fwd = <<>>
    /\ wrapped = newResponseWriter
    /\ caller = NewCaller
    /\ origModel = ""
    /\ ops = <<>>
    /\ tin \in TransformInputs
    /\ tout = <<>>

Transform ==
    /\ pc = "t-in"
    /\ tout' = ToOracleCloudRequest(config, tin)
    /\ pc' = "t-out"
    /\ UNCHANGED <<variant, config, route, inbound, req, fwd, wrapped, caller,
                   origModel, ops, tin>>

NextTransform == Transform

SpecTransform == InitTransform /\ [][NextTransform]_vars

(***************************************************************************)
(* The response transform on its own: ToOpenAIResponse applied to backend  *)
(* responses with every finish reason, usage and model name of the input   *)
(* sets.  tin is [resp, originalModel].                                    *)
(***************************************************************************)
FinishReasons ==
    {"COMPLETE", "MAX_TOKENS", "CONTENT_FILTER", "", "complete", "ERROR"}

Usages ==
    {[PromptTokens |-> p, CompletionTokens |-> c, TotalTokens |-> t] :
        p \in {-5, 0, 10}, c \in {0, 6}, t \in {0, 16, 20}}

ResponseInputs ==
    {[resp |-> [ModelID |-> m, ModelVersion |-> "1.0",
                ChatResponse |-> [Text |-> x, FinishReason |-> f,
                                  Usage |-> u]],
      originalModel |-> o] :
        m \in {"", "cohere.command-a"}, x \in {"", "Hello!"},
        f \in FinishReasons, u \in Usages, o \in {"", "gpt-4"}}

InitResponse ==
    /\ variant \in Revisions
    /\ config \in Configs
    /\ pc = "r-in"
    /\ route = "none"
    /\ inbound = Request("GET", <<>>, NoQuery, "", OkBody(<<>>))
    /\ req = inbound
    /\ fwd = <<>>
    /\ wrapped = newResponseWriter
    /\ caller = NewCaller
    /\ origModel = ""
    /\ ops = <<>>
    /\ tin \in ResponseInputs
    /\ tout = <<>>

TransformResponse(id, now) ==
    /\ pc = "r-in"
    /\ tout' = ToOpenAIResponse(tin.resp, tin.originalModel, id, now)
    /\ pc' = "r-out"
    /\ UNCHANGED <<variant, config, route, inbound, req, fwd, wrapped, caller,
                   origModel, ops, tin>>

NextResponse == \E id \in CompletionIDs, now \in Times : TransformResponse(id, now)

SpecResponse == InitResponse /\ [][NextResponse]_vars

(***************************************************************************)
(* The models transform on its own: ToOpenAIModelsResponse applied to      *)
(* every listing of at most MaxModels backend models.                      *)
(***************************************************************************)
MaxModels == 3

ModelPool ==
    {[ID |-> "ocid1.model.a", DisplayName |-> "cohere.command-a",
      Vendor |-> "cohere", Capabilities |-> <<"CHAT">>,
      LifecycleState |-> "ACTIVE", TimeCreated |-> "2023-01-01T00:00:00Z"],
     [ID |-> "ocid1.model.b", DisplayName |-> "embed-v3",
      Vendor |-> "cohere", Capabilities |-> <<"TEXT_EMBEDDINGS">>,
      LifecycleState |-> "ACTIVE", TimeCreated |-> "1970-01-01T00:00:10Z"],
     [ID |-> "ocid1.model.c", DisplayName |-> "llama-old",
      Vendor |-> "meta", Capabilities |-> <<"TEXT", "CHAT">>,
      LifecycleState |-> "DELETED", TimeCreated |-> "2023-01-01T00:00:00Z"],
     [ID |-> "ocid1.model.d", DisplayName |-> "llama-3",
      Vendor |-> "meta", Capabilities |-> <<"TEXT", "CHAT">>,
      LifecycleState |-> "ACTIVE", TimeCreated |-> "yesterday"],
     [ID |-> "ocid1.model.e", DisplayName |-> "draft",
      Vendor |-> "xai", Capabilities |-> <<>>,
      LifecycleState |-> "CREATING", TimeCreated |-> ""]}

InitModels ==
    /\ variant \in Revisions
    /\ config \in Configs
    /\ pc = "m-in"
    /\ route = "none"
    /\ inbound = Request("GET", <<>>, NoQuery, "", OkBody(<<>>))
    /\ req = inbound
    /\ fwd = <<>>
    /\ wrapped = newResponseWriter
    /\ caller = NewCaller
    /\ origModel = ""
    /\ ops = <<>>
    /\ tin \in {[Items |-> items] : items \in SeqsUpTo(ModelPool, MaxModels)}
    /\ tout = <<>>

TransformModels(now) ==
    /\ pc = "m-in"
    /\ tout' = ToOpenAIModelsResponse(tin, now)
    /\ pc' = "m-out"
    /\ UNCHANGED <<variant, config, route, inbound, req, fwd, wrapped, caller,
                   origModel, ops, tin>>

NextModels == \E now \in Times : TransformModels(now)

SpecModels == InitModels /\ [][NextModels]_vars

(***************************************************************************)
(* The codec of revision 1 on its own, next to the plugin: compressResponse *)
(* applied to a byte string of at most MaxBodyAtoms blocks under a         *)
(* Content-Encoding, then decompressResponse applied to the result.  tin   *)
(* is [body, enc].                                                         *)
(***************************************************************************)
MaxBodyAtoms == 2

CodecAtoms ==
    {ByteAtom, TextAtom("upstream error"), JsonAtom(ChatRespDoc),
     GzipAtom(<<ByteAtom>>), DeflateAtom(<<ByteAtom>>)}

CodecEncodings == {"", "gzip", "deflate", "br", "GZIP"}

CodecHeaders(enc) == HeaderSet(NoHeaders, "Content-Encoding", enc)

InitCodec ==
    /\ variant = 1
    /\ config \in Configs
    /\ pc = "c-in"
    /\ route = "none"
    /\ inbound = Request("GET", <<>>, NoQuery, "", OkBody(<<>>))
    /\ req = inbound
    /\ fwd = <<>>
    /\ wrapped = newResponseWriter
    /\ caller = NewCaller
    /\ origModel = ""
    /\ ops = <<>>
    /\ tin \in {[body |-> b, enc |-> e] :
                   b \in SeqsUpTo(CodecAtoms, MaxBodyAtoms),
                   e \in CodecEncodings}
    /\ tout = <<>>

Compress ==
    /\ pc = "c-in"
    /\ tout' = compressResponse(tin.body, CodecHeaders(tin.enc))
    /\ pc' = "c-mid"
    /\ UNCHANGED <<variant, config, route, inbound, req, fwd, wrapped, caller,
                   origModel, ops, tin>>

Decompress ==
    /\ pc = "c-mid"
    /\ tout.ok
    /\ tout' = decompressResponse(tout.val, CodecHeaders(tin.enc))
    /\ pc' = "c-out"
    /\ UNCHANGED <<variant, config, route, inbound, req, fwd, wrapped, caller,
                   origModel, ops, tin>>

\* decompressResponse applied to the byte string as it is
DecompressRaw ==
    /\ pc = "c-in"
    /\ tout' = decompressResponse(tin.body, CodecHeaders(tin.enc))
    /\ pc' = "d-out"
    /\ UNCHANGED <<variant, config, route, inbound, req, fwd, wrapped, caller,
                   origModel, ops, tin>>

NextCodec == Next \/ Compress \/ Decompress \/ DecompressRaw

SpecCodec == (Init \/ InitCodec) /\ [][NextCodec]_vars

(***************************************************************************)
(* internal/config and the constructor.  An error is its message, "" is    *)
(* the nil error.  tin is the Config handed to Validate and to New.        *)
(***************************************************************************)
\* a validation that forgets the region
ValidateCompartmentOnly(c) ==
    IF c.CompartmentID = ""
    THEN "compartmentId is required and cannot be empty"
    ELSE ""

Validate(c) ==
    IF c.CompartmentID = ""
    THEN "compartmentId is required and cannot be empty"
    ELSE IF c.Region = ""
    THEN "region is required and cannot be empty"
    ELSE ""

\* New of the plugin: (nil, "invalid configuration: %w") or (&Proxy{...}, nil);
\* the handler is <<>> for nil and <<proxy>> otherwise
New(cfg) ==
    LET err == Validate(cfg) IN
    IF err # ""
    THEN [handler |-> <<>>, err |-> <<"invalid configuration: ", err>>]
    ELSE [handler |-> <<[config |-> cfg, transformer |-> [config |-> cfg]]>>,
          err |-> <<>>]

CandidateConfigs ==
    {[CompartmentID |-> c, Region |-> r] :
        c \in {"", " ", "ocid1.compartment.test", "ocid1.compartment.prod",
               "test-compartment-id"},
        r \in {"", " ", "us-ashburn-1", "us-chicago-1", "eu-frankfurt-1"}}

InitConfig ==
    /\ variant \in Revisions
    /\ config \in Configs
    /\ pc = "v-in"
    /\ route = "none"
    /\ inbound = Request("GET", <<>>, NoQuery, "", OkBody(<<>>))
    /\ req = inbound
    /\ fwd = <<>>
    /\ wrapped = newResponseWriter
    /\ caller = NewCaller
    /\ origModel = ""
    /\ ops = <<>>
    /\ tin \in CandidateConfigs
    /\ tout = <<>>

ValidateConfig ==
    /\ pc = "v-in"
    /\ tout' = [validate |-> Validate(tin)]
    /\ pc' = "v-out"
    /\ UNCHANGED <<variant, config, route, inbound, req, fwd, wrapped, caller,
                   origModel, ops, tin>>

NewProxy ==
    /\ pc = "v-out"
    /\ tout' = [validate |-> tout.validate, new |-> New(tin)]
    /\ pc' = "n-out"
    /\ UNCHANGED <<variant, config, route, inbound, req, fwd, wrapped, caller,
                   origModel, ops, tin>>

NextConfig == ValidateConfig \/ NewProxy

SpecConfig == InitConfig /\ [][NextConfig]_vars

(***************************************************************************)
(* ServeHTTP with the state of the inbound request's context made explicit.*)
(* The context is fixed before the call; no revision of ServeHTTP,         *)
(* processOpenAIRequest or processModelsRequest reads req.Context(), so    *)
(* the actions are those of Spec.                                          *)
(***************************************************************************)
Contexts == {[done |-> FALSE], [done |-> TRUE]}

InitCancel ==
    /\ variant \in Revisions
    /\ config \in Configs
    /\ pc = "idle"
    /\ route = "none"
    /\ inbound = Request("GET", <<>>, NoQuery, "", OkBody(<<>>))
    /\ req = inbound
    /\ fwd = <<>>
    /\ wrapped = newResponseWriter
    /\ caller = NewCaller
    /\ origModel = ""
    /\ ops = <<>>
    /\ tin \in Contexts
    /\ tout = <<>>

SpecCancel == InitCancel /\ [][Next]_vars

(***************************************************************************)
(* Two concurrent invocations of ServeHTTP on one Proxy.  rw, req,         *)
(* originalModel, wrappedWriter and the position in ServeHTTP are locals   *)
(* of an invocation; the Proxy's fields are what the invocations share.    *)
(* The variables of Spec hold the locals of the invocation that is         *)
(* running, tin those of the other one, and a goroutine switch exchanges   *)
(* them between any two steps.                                             *)
(***************************************************************************)
ConcurrentRequests ==
    {Request("POST", ChatPath, NoQuery, "application/json",
             OkBody(<<JsonAtom(DefaultDoc)>>)),
     Request("POST", ChatPath, NoQuery, "application/json",
             OkBody(<<JsonAtom(ChatDoc("", HelloMessages, 1000, 200000000,
                                       0, ""))>>)),
     Request("POST", ChatPath, NoQuery, "application/json",
             OkBody(<<TextAtom("not json")>>)),
     Request("GET", ModelsListPath, NoQuery, "", OkBody(<<>>)),
     Request("OPTIONS", ChatPath, NoQuery, "application/json",
             OkBody(<<JsonAtom(DefaultDoc)>>))}

ConcurrentAtoms ==
    {JsonAtom(ChatRespDoc), JsonAtom(ModelsDoc), TextAtom("upstream error")}

ConcurrentCodes == {500}

Locals ==
    [pc |-> pc, route |-> route, inbound |-> inbound, req |-> req,
     fwd |-> fwd, wrapped |-> wrapped, caller |-> caller,
     origModel |-> origModel, ops |-> ops]

InitConcurrent ==
    /\ variant \in Revisions
    /\ config \in Configs
    /\ pc = "idle"
    /\ route = "none"
    /\ inbound = Request("GET", <<>>, NoQuery, "", OkBody(<<>>))
    /\ req = inbound
    /\ fwd = <<>>
    /\ wrapped = newResponseWriter
    /\ caller = NewCaller
    /\ origModel = ""
    /\ ops = <<>>
    /\ tin = Locals
    /\ tout = <<>>

\* a switch that leaves originalModel where it is, as a field of the Proxy
\* would be
SwitchSharedModel ==
    /\ tin' = Locals
    /\ pc' = tin.pc
    /\ route' = tin.route
    /\ inbound' = tin.inbound
    /\ req' = tin.req
    /\ fwd' = tin.fwd
    /\ wrapped' = tin.wrapped
    /\ caller' = tin.caller
    /\ origModel' = origModel
    /\ ops' = tin.ops
    /\ UNCHANGED <<variant, config, tout>>

\* the scheduler runs the other invocation
Switch ==
    /\ tin' = Locals
    /\ pc' = tin.pc
    /\ route' = tin.route
    /\ inbound' = tin.inbound
    /\ req' = tin.req
    /\ fwd' = tin.fwd
    /\ wrapped' = tin.wrapped
    /\ caller' = tin.caller
    /\ origModel' = tin.origModel
    /\ ops' = tin.ops
    /\ UNCHANGED <<variant, config, tout>>

NextConcurrent ==
    \/ \E r \in ConcurrentRequests : ServeHTTP(r)
    \/ \E code \in ConcurrentCodes : NextWriteHeader(code)
    \/ \E atom \in ConcurrentAtoms : NextWrite(atom)
    \/ NextReturn
    \/ \E id \in CompletionIDs, now \in Times : FinishChat(id, now)
    \/ \E now \in Times : FinishModels(now)
    \/ FinishPass
    \/ Switch

SpecConcurrent == InitConcurrent /\ [][NextConcurrent]_vars

(***************************************************************************)
(* Properties.  The routing conditions are restated here from the          *)
(* request itself, not through the plugin's own predicates.                *)
(***************************************************************************)
Range(q) == {q[i] : i \in 1..Len(q)}

ChatRouted ==
    /\ inbound.Method = "POST"
    /\ Len(inbound.Path) >= 2
    /\ inbound.Path[Len(inbound.Path)] = "completions"
    /\ inbound.Path[Len(inbound.Path) - 1] = "chat"

ModelsRouted ==
    /\ inbound.Method = "GET"
    /\ Len(inbound.Path) >= 1
    /\ inbound.Path[Len(inbound.Path)] = "models"

Entered == pc \in {"next", "returned", "done"}

\* the next handler got the inbound request itself, on the real writer, and
\* the plugin made no call on the real writer
PassedThrough ==
    /\ Len(fwd) = 1
    /\ fwd[1].writer = "real"
    /\ fwd[1].req.Method = inbound.Method
    /\ fwd[1].req.Scheme = inbound.Scheme
    /\ fwd[1].req.Host = inbound.Host
    /\ fwd[1].req.Path = inbound.Path
    /\ fwd[1].req.RawQuery = inbound.RawQuery
    /\ fwd[1].req.Body = inbound.Body
    /\ fwd[1].req.Header = inbound.Header
    /\ caller.proxyWriteHeader = 0
    /\ caller.proxyWrite = 0
    /\ caller.proxyHeader = 0

C2_ParseFailureIs400 ==
    (Entered /\ ChatRouted /\ inbound.Body.read = "ok"
        /\ ~UnmarshalChatCompletionRequest(inbound.Body.bytes).ok)
        => (pc = "done" /\ caller.status = 400 /\ Len(fwd) = 0)

\* C2 witness: a chat request whose body is a JSON text followed by a stray
\* byte has been answered.
C2_Witness ==
    /\ pc = "done"
    /\ ChatRouted
    /\ inbound.Body = OkBody(<<JsonAtom(DefaultDoc), ByteAtom>>)
    /\ caller.status = 400

\* C3: for every chat request that parses, the next handler sees scheme
\* https, host generativeai.<region>.oci.oraclecloud.com, path
\* /20231130/actions/chat, no query, and a Content-Type that is
\* application/json only when the caller sent none.
C3_ChatDestination ==
    (Entered /\ ChatRouted /\ Len(fwd) = 1) =>
        /\ fwd[1].req.Scheme = "https"
        /\ fwd[1].req.Host =
               <<"generativeai", config.Region, "oci", "oraclecloud", "com">>
        /\ fwd[1].req.Path = <<"20231130", "actions", "chat">>
        /\ fwd[1].req.RawQuery = NoQuery
        /\ fwd[1].req.Header["Content-Type"] =
               IF inbound.Header["Content-Type"] = ""
               THEN "application/json"
               ELSE inbound.Header["Content-Type"]

ResponseSteps == {"decode", "parse", "transform", "serialize", "encode",
                  "write"}

\* C4: on the chat and the models path, a captured status other than 200
\* reaches the caller with exactly the captured status and body, and no
\* decoding, parsing or transformation of the response is attempted.
C4_Non200Relayed ==
    (pc = "done" /\ (ChatRouted \/ ModelsRouted) /\ Len(fwd) = 1
        /\ wrapped.statusCode # 200)
        => /\ caller.status = wrapped.statusCode
           /\ caller.body = wrapped.body
           /\ Range(ops) \cap ResponseSteps = {}

\* C4 witness: a models request was answered 404 with a gzip-declared body.
C4_Witness ==
    /\ pc = "done"
    /\ ModelsRouted
    /\ wrapped.statusCode = 404
    /\ wrapped.body # <<>>
    /\ caller.hdr["Content-Encoding"] = "gzip"
    /\ caller.status = 404

\* the response was captured with status 200 and no transformed response
\* was written: decoding or parsing it failed
TranslationFailed ==
    /\ pc = "done"
    /\ Len(fwd) = 1
    /\ fwd[1].writer = "wrapped"
    /\ wrapped.statusCode = 200
    /\ "write" \notin Range(ops)

\* C5: on the chat path, when the captured status is 200 and translating
\* the response fails, the caller receives status 200 and the captured
\* body unmodified, never a status of the plugin's own.
C5_ChatFailOpen ==
    (ChatRouted /\ TranslationFailed)
        => /\ caller.status = 200
           /\ caller.body = wrapped.body
           /\ caller.proxyWriteHeader = 1

\* C5 witness: revision 1 could not decode a gzip-declared body that is no
\* gzip stream, and the caller has the captured body.
C5_Witness ==
    /\ ChatRouted
    /\ TranslationFailed
    /\ variant = 1
    /\ caller.hdr["Content-Encoding"] = "gzip"
    /\ wrapped.body = <<TextAtom("upstream error")>>
    /\ ops = <<"inbound parse", "request transform", "request serialize",
               "decode">>

\* C6: on the models path, when the captured status is 200 and translating
\* the listing fails, the caller receives the captured status and body
\* unmodified.  The code answers 500 with the error text.
C6_ModelsFailOpen ==
    (ModelsRouted /\ TranslationFailed)
        => /\ caller.status = wrapped.statusCode
           /\ caller.body = wrapped.body

\* C7: the query forwarded for a models request holds every parameter the
\* caller sent with its values, capability=CHAT when the caller sent no
\* capability, and compartmentId equal to the configured compartment
\* whatever the caller sent.  Revision 1 forwards a fixed query.
C7_ModelsQuery ==
    (Entered /\ ModelsRouted /\ Len(fwd) = 1) =>
        LET q == fwd[1].req.RawQuery
            sent == inbound.RawQuery
        IN /\ \A k \in (DOMAIN sent) \ {"compartmentId"} :
                  k \in DOMAIN q /\ q[k] = sent[k]
           /\ "capability" \in DOMAIN q
           /\ "capability" \notin DOMAIN sent => q["capability"] = <<"CHAT">>
           /\ "compartmentId" \in DOMAIN q
           /\ q["compartmentId"] = <<config.CompartmentID>>

\* C8: the compartmentId of the request ToOracleCloudRequest produces is the
\* configured compartment id, for an empty and a non-empty message list
\* alike; it is the one the request with no fields set gets.
C8_CompartmentFromConfig ==
    pc = "t-out" =>
        /\ tout.CompartmentID = config.CompartmentID
        /\ tout.CompartmentID =
               ToOracleCloudRequest(config,
                                    ZeroChatCompletionRequest).CompartmentID

\* C8 witness: a three-message request for another model was transformed.
C8_Witness ==
    /\ pc = "t-out"
    /\ Len(tin.Messages) = 3
    /\ tin.Model = "cohere.command-a"
    /\ tin.MaxTokens = 1000
    /\ tout.CompartmentID = "ocid1.compartment.prod"

\* C9: for a message list of length N >= 1 the current message is the
\* content of the last message, and the chat history has the N-1 contents
\* of the earlier messages in input order.
C9_LastMessageAndHistory ==
    (pc = "t-out" /\ Len(tin.Messages) >= 1) =>
        LET n == Len(tin.Messages)
            h == tout.ChatRequest.ChatHistory
        IN /\ tout.ChatRequest.Message = tin.Messages[n].Content
           /\ Len(h) = n - 1
           /\ \A i \in 1..(n - 1) : h[i]["content"] = tin.Messages[i].Content

\* C9 witness: three messages with three different contents were
\* transformed.
C9_Witness ==
    /\ pc = "t-out"
    /\ Len(tin.Messages) = 3
    /\ tin.Messages[1].Content = "Hello"
    /\ tin.Messages[2].Content = "Yo"
    /\ tin.Messages[3].Content = "Hi"
    /\ Len(tout.ChatRequest.ChatHistory) = 2

UpperLetters ==
    <<"A", "B", "C", "D", "E", "F", "G", "H", "I", "J", "K", "L", "M",
      "N", "O", "P", "Q", "R", "S", "T", "U", "V", "W", "X", "Y", "Z">>

LowerLetters ==
    <<"a", "b", "c", "d", "e", "f", "g", "h", "i", "j", "k", "l", "m",
      "n", "o", "p", "q", "r", "s", "t", "u", "v", "w", "x", "y", "z">>

ToLowerChar(c) ==
    IF \E i \in 1..Len(UpperLetters) : UpperLetters[i] = c
    THEN LowerLetters[CHOOSE i \in 1..Len(UpperLetters) : UpperLetters[i] = c]
    ELSE c

ToLower(str) == [i \in 1..Len(str) |-> ToLowerChar(str[i])]

Contains(str, sub) ==
    \E i \in 0..(Len(str) - Len(sub)) : SubSeq(str, i + 1, i + Len(sub)) = sub

\* the role the specification gives a chat-history entry
HistoryRole(role) ==
    IF Contains(ToLower(role), <<"u", "s", "e", "r">>)
    THEN <<"U", "S", "E", "R">>
    ELSE <<"C", "H", "A", "T", "B", "O", "T">>

\* C10: a chat-history entry has role USER when the input role contains
\* "user" in any case and CHATBOT otherwise, and carries the content in its
\* message field.  The code copies the role as sent and names the field
\* content.
C10_HistoryRoleAndMessage ==
    pc = "t-out" =>
        LET h == tout.ChatRequest.ChatHistory IN
        \A i \in 1..Len(h) :
            /\ h[i]["role"] = HistoryRole(tin.Messages[i].Role)
            /\ "message" \in DOMAIN h[i]
            /\ h[i]["message"] = tin.Messages[i].Content

\* C11: for an empty message list ToOracleCloudRequest returns an empty
\* message, apiFormat COHERE, no chat history, and max tokens, temperature,
\* top-p, frequency penalty and presence penalty equal to the caller's.
\* The empty branch carries only max tokens and temperature.
C11_EmptyListCarriesSampling ==
    (pc = "t-out" /\ Len(tin.Messages) = 0) =>
        /\ tout.ChatRequest.Message = ""
        /\ tout.ChatRequest.APIFormat = "COHERE"
        /\ tout.ChatRequest.ChatHistory = <<>>
        /\ tout.ChatRequest.MaxTokens = tin.MaxTokens
        /\ tout.ChatRequest.Temperature = tin.Temperature
        /\ tout.ChatRequest.TopP = tin.TopP
        /\ tout.ChatRequest.FrequencyPenalty = tin.FrequencyPenalty
        /\ tout.ChatRequest.PresencePenalty = tin.PresencePenalty

\* the inbound body is a chat-completions document
InboundChatDoc ==
    /\ inbound.Body.read = "ok"
    /\ Len(inbound.Body.bytes) = 1
    /\ inbound.Body.bytes[1].a = "json"
    /\ inbound.Body.bytes[1].j.t = "chatreq"

\* C12: for every chat-completions request ServeHTTP handles, maxTokens,
\* temperature, topP, frequencyPenalty and presencePenalty of the body
\* forwarded to the next handler equal the values of the inbound body.
\* Revision 1 forwards maxTokens 1000 whatever the caller sent.
C12_SamplingForwarded ==
    (Entered /\ ChatRouted /\ InboundChatDoc /\ Len(fwd) = 1) =>
        LET sent == inbound.Body.bytes[1].j
            out == fwd[1].req.Body.bytes[1].j.chatRequest
        IN /\ out.maxTokens = sent.max_tokens
           /\ out.temperature = sent.temperature
           /\ out.topP = sent.topP
           /\ out.frequencyPenalty = sent.frequencyPenalty
           /\ out.presencePenalty = sent.presencePenalty

\* C13: the result of ToOracleCloudRequest always has isStream false,
\* servingType ON_DEMAND, apiFormat COHERE and the inbound model name as
\* servingMode.modelId, whatever the messages and the model name are.
C13_FixedFields ==
    pc = "t-out" =>
        /\ tout.ChatRequest.IsStream = FALSE
        /\ tout.ServingMode.ServingType = "ON_DEMAND"
        /\ tout.ChatRequest.APIFormat = "COHERE"
        /\ tout.ServingMode.ModelID = tin.Model

\* C13 witness: a two-message request for a model whose name does not
\* contain cohere was transformed.
C13_Witness ==
    /\ pc = "t-out"
    /\ tin.Model = "gpt-4"
    /\ Len(tin.Messages) = 2
    /\ tout.ChatRequest.APIFormat = "COHERE"
    /\ tout.ServingMode.ModelID = "gpt-4"

\* the finish reason the specification gives a backend reason
ExpectedFinishReason(r) ==
    IF r = "COMPLETE" THEN "stop"
    ELSE IF r = "MAX_TOKENS" THEN "length"
    ELSE IF r = "CONTENT_FILTER" THEN "content_filter"
    ELSE "stop"

\* C14: COMPLETE maps to stop, MAX_TOKENS to length, CONTENT_FILTER to
\* content_filter and every other reason, the empty one and differently
\* cased ones included, to stop; the result is always one of the three.
C14_FinishReasonTotal ==
    pc = "r-out" =>
        /\ Len(tout.Choices) = 1
        /\ tout.Choices[1].FinishReason =
               ExpectedFinishReason(tin.resp.ChatResponse.FinishReason)
        /\ tout.Choices[1].FinishReason \in {"stop", "length", "content_filter"}

\* C14 witness: a response whose reason is the lower-case complete was
\* transformed and got stop.
C14_Witness ==
    /\ pc = "r-out"
    /\ tin.resp.ChatResponse.FinishReason = "complete"
    /\ tout.Choices[1].FinishReason = "stop"

\* C15 as stated: prompt and completion counts are copied; the total is the
\* backend's, except that a zero total with a nonzero prompt or completion
\* count becomes their sum.  The code tests the counts for > 0, so a
\* negative count with a zero total leaves the total zero.
C15_TotalFromNonzero ==
    pc = "r-out" =>
        LET u == tin.resp.ChatResponse.Usage IN
        /\ tout.Usage.PromptTokens = u.PromptTokens
        /\ tout.Usage.CompletionTokens = u.CompletionTokens
        /\ tout.Usage.TotalTokens =
               IF u.TotalTokens = 0 /\
                  (u.PromptTokens # 0 \/ u.CompletionTokens # 0)
               THEN u.PromptTokens + u.CompletionTokens
               ELSE u.TotalTokens

\* C15, amended: prompt and completion counts are copied unchanged; the
\* output total equals the backend total, except that when the backend
\* total is zero and at least one of prompt and completion is greater than
\* zero the output total is prompt + completion; a nonzero backend total is
\* never recomputed.
C15_TotalFromPositive ==
    pc = "r-out" =>
        LET u == tin.resp.ChatResponse.Usage IN
        /\ tout.Usage.PromptTokens = u.PromptTokens
        /\ tout.Usage.CompletionTokens = u.CompletionTokens
        /\ tout.Usage.TotalTokens =
               IF u.TotalTokens = 0 /\
                  (u.PromptTokens > 0 \/ u.CompletionTokens > 0)
               THEN u.PromptTokens + u.CompletionTokens
               ELSE u.TotalTokens

\* C15 witness: usage {10, 6, 0} came out with total 16.
C15_Witness ==
    /\ pc = "r-out"
    /\ tin.resp.ChatResponse.Usage =
           [PromptTokens |-> 10, CompletionTokens |-> 6, TotalTokens |-> 0]
    /\ tout.Usage.TotalTokens = 16

\* C16: the model name of the response is the first non-empty one of the
\* inbound request's model name, the backend's model id and "unknown"; it
\* is never empty.
C16_ModelNameOrder ==
    pc = "r-out" =>
        /\ tout.Model # ""
        /\ tout.Model =
               IF tin.originalModel # "" THEN tin.originalModel
               ELSE IF tin.resp.ModelID # "" THEN tin.resp.ModelID
               ELSE "unknown"

\* C16 witness: both names were present and the inbound one was taken.
C16_Witness ==
    /\ pc = "r-out"
    /\ tin.originalModel = "gpt-4"
    /\ tin.resp.ModelID = "cohere.command-a"
    /\ tout.Model = "gpt-4"

\* C17: every backend chat response yields object chat.completion and
\* exactly one choice, with index 0, role assistant and the backend's text
\* as content, an empty text included.
C17_OneAssistantChoice ==
    pc = "r-out" =>
        /\ tout.Object = "chat.completion"
        /\ Len(tout.Choices) = 1
        /\ tout.Choices[1].Index = 0
        /\ tout.Choices[1].Message.Role = "assistant"
        /\ tout.Choices[1].Message.Content = tin.resp.ChatResponse.Text

\* C17 witness: a response with an empty text was transformed.
C17_Witness ==
    /\ pc = "r-out"
    /\ tin.resp.ChatResponse.Text = ""
    /\ Len(tout.Choices) = 1
    /\ tout.Choices[1].Message.Content = ""

\* a backend model the listing is to include
Included(m) ==
    /\ m.LifecycleState = "ACTIVE"
    /\ \E i \in 1..Len(m.Capabilities) : m.Capabilities[i] = "CHAT"

\* C18: the listing has object list and exactly one entry for each backend
\* model that is ACTIVE and has CHAT among its capabilities, in backend
\* order, and none for any other model.
C18_ActiveChatOnly ==
    pc = "m-out" =>
        LET keep == SelectSeq(tin.Items, Included) IN
        /\ tout.Object = "list"
        /\ Len(tout.Data) = Len(keep)
        /\ \A i \in 1..Len(keep) : tout.Data[i].ID = keep[i].ID

\* C18 witness: of three models the deleted one was left out and the two
\* active chat models were listed in backend order.
C18_Witness ==
    /\ pc = "m-out"
    /\ Len(tin.Items) = 3
    /\ tin.Items[1].ID = "ocid1.model.d"
    /\ tin.Items[2].ID = "ocid1.model.c"
    /\ tin.Items[3].ID = "ocid1.model.a"
    /\ Len(tout.Data) = 2
    /\ tout.Data[1].ID = "ocid1.model.d"
    /\ tout.Data[2].ID = "ocid1.model.a"

\* C19 as stated: each listed entry has the backend model's display name
\* as id, object model and the backend model's vendor as owner.  The code
\* takes the backend model's id.
C19_IdIsDisplayName ==
    pc = "m-out" =>
        LET keep == SelectSeq(tin.Items, Included) IN
        /\ Len(tout.Data) = Len(keep)
        /\ \A i \in 1..Len(keep) :
               /\ tout.Data[i].ID = keep[i].DisplayName
               /\ tout.Data[i].Object = "model"
               /\ tout.Data[i].OwnedBy = keep[i].Vendor

\* C19, amended: each listed entry has the backend model's id as id, object
\* model and the backend model's vendor as owner.
C19_IdIsBackendId ==
    pc = "m-out" =>
        LET keep == SelectSeq(tin.Items, Included) IN
        /\ Len(tout.Data) = Len(keep)
        /\ \A i \in 1..Len(keep) :
               /\ tout.Data[i].ID = keep[i].ID
               /\ tout.Data[i].Object = "model"
               /\ tout.Data[i].OwnedBy = keep[i].Vendor

\* C19 witness: a listing of two active chat models of different vendors
\* was transformed.
C19_Witness ==
    /\ pc = "m-out"
    /\ Len(tin.Items) = 2
    /\ tin.Items[1].ID = "ocid1.model.a"
    /\ tin.Items[2].ID = "ocid1.model.d"
    /\ Len(tout.Data) = 2
    /\ tout.Data[1].OwnedBy = "cohere"
    /\ tout.Data[2].OwnedBy = "meta"

\* the plugin wrote a transformed response that went through the encoder
\* under a supported Content-Encoding
EncodedResponseWritten ==
    /\ pc = "done"
    /\ Len(fwd) = 1
    /\ wrapped.statusCode = 200
    /\ "encode" \in Range(ops)
    /\ "write" \in Range(ops)
    /\ caller.hdr["Content-Encoding"] \in {"gzip", "deflate"}

C21_ConstructionValidates ==
    pc = "n-out" =>
        /\ (tin.CompartmentID = "" \/ tin.Region = "")
               => (tout.new.handler = <<>> /\ tout.new.err # <<>>)
        /\ (tin.CompartmentID # "" /\ tin.Region # "")
               => (tout.new.handler # <<>> /\ tout.new.err = <<>>
                   /\ tout.validate = "")
        /\ tin.CompartmentID = ""
               => tout.validate =
                      "compartmentId is required and cannot be empty"
        /\ (tin.CompartmentID # "" /\ tin.Region = "")
               => tout.validate = "region is required and cannot be empty"

\* C21 witness: a configuration with a compartment id and no region was
\* refused by New.
C21_Witness ==
    /\ pc = "n-out"
    /\ tin = [CompartmentID |-> "test-compartment-id", Region |-> ""]
    /\ tout.new.handler = <<>>
    /\ tout.validate = "region is required and cannot be empty"

\* C22: compressResponse and decompressResponse return their input
\* unchanged and without error when Content-Encoding is absent, empty or
\* any value other than gzip and deflate; decompressResponse also does so
\* when the encoding is gzip and the body is shorter than 2 bytes.
C22_CodecPassThrough ==
    /\ (pc = "c-mid" /\ tin.enc \notin {"gzip", "deflate"})
           => (tout.ok /\ tout.val = tin.body)
    /\ (pc = "d-out" /\ tin.enc \notin {"gzip", "deflate"})
           => (tout.ok /\ tout.val = tin.body)
    /\ (pc = "d-out" /\ tin.enc = "gzip" /\ ByteLen(tin.body) < 2)
           => (tout.ok /\ tout.val = tin.body)

\* C22 witness: a one-byte body declared gzip came back from the decoder
\* as it was.
C22_Witness ==
    /\ pc = "d-out"
    /\ tin.enc = "gzip"
    /\ tin.body = <<ByteAtom>>
    /\ tout.ok
    /\ tout.val = <<ByteAtom>>

\* C23: when the context of a matched request is already done before the
\* request is forwarded, the next handler is not invoked for it.
C23_DoneContextNotForwarded ==
    (/\ tin \in Contexts
     /\ tin.done
     /\ pc # "idle"
     /\ route \in {"chat", "models"})
        => fwd = <<>>

\* C24: for a matched request nothing the next handler writes through the
\* wrapper reaches the real caller: while the next handler runs, and until
\* the plugin resumes after its return, the caller has no status and no
\* body byte; every WriteHeader and Write the caller ever receives is the
\* plugin's own, made after the next handler returned (or without calling
\* it at all).
C24_DownstreamOnlyBuffered ==
    (Entered /\ (ChatRouted \/ ModelsRouted)) =>
        /\ caller.nWriteHeader = caller.proxyWriteHeader
        /\ caller.nWrite = caller.proxyWrite
        /\ pc \in {"next", "returned"} =>
               /\ caller.status = 0
               /\ caller.body = <<>>
               /\ caller.nWriteHeader = 0
               /\ caller.nWrite = 0

\* C24 witness: the next handler of a chat request has written a status
\* and body bytes, and the caller has received nothing.
C24_Witness ==
    /\ pc = "next"
    /\ ChatRouted
    /\ wrapped.nWriteHeader > 0
    /\ wrapped.body # <<>>
    /\ caller.status = 0
    /\ caller.body = <<>>

\* the steps of one matched request in the order the claim gives them; the
\* forward and the capture lie between "request serialize" and "decode"
StepOrder ==
    <<"inbound parse", "request transform", "request serialize", "decode",
      "parse", "transform", "serialize", "encode", "write">>

StepPosition(s) == CHOOSE i \in 1..Len(StepOrder) : StepOrder[i] = s

InStepOrder(q) ==
    \A i \in 1..Len(q) :
        /\ q[i] \in Range(StepOrder)
        /\ i > 1 => StepPosition(q[i - 1]) < StepPosition(q[i])

InboundParses ==
    /\ inbound.Body.read = "ok"
    /\ UnmarshalChatCompletionRequest(inbound.Body.bytes).ok

\* C25: within one matched request the steps taken follow the fixed order
\* inbound parse, request transform, serialize, forward, capture, decode,
\* backend parse, response transform, serialize, encode, write, none of
\* them twice; the next handler is invoked exactly once when the inbound
\* body parses and never more than once for any request; no response step
\* and no write to the caller of a forwarded request happens before the
\* next handler has returned.
C25_StepsInOrder ==
    /\ [](Len(fwd) <= 1)
    /\ []((Entered /\ (ChatRouted \/ ModelsRouted)) =>
            /\ InStepOrder(ops)
            /\ (ChatRouted /\ InboundParses) => Len(fwd) = 1
            /\ (ChatRouted /\ Len(fwd) = 1) =>
                   /\ Len(ops) >= 3
                   /\ SubSeq(ops, 1, 3) = SubSeq(StepOrder, 1, 3)
            /\ (ChatRouted /\ Len(fwd) = 0) =>
                   Range(ops) \subseteq {"inbound parse"}
            /\ pc \in {"next", "returned"} =>
                   /\ Range(ops) \cap ResponseSteps = {}
                   /\ caller.nWriteHeader = 0
                   /\ caller.nWrite = 0)
    /\ [][(/\ Len(fwd') = 1
           /\ fwd'[1].writer = "wrapped"
           /\ \/ caller'.nWriteHeader # caller.nWriteHeader
              \/ caller'.nWrite # caller.nWrite
              \/ ops' # ops /\ pc # "idle")
          => pc = "returned"]_vars

\* C25 witness: a chat request of the first revision went through all nine
\* steps around one call of the next handler.
C25_Witness ==
    /\ pc = "done"
    /\ ChatRouted
    /\ Len(fwd) = 1
    /\ ops = StepOrder
    /\ caller.proxyWrite = 1

\* the response request l.inbound gets from an invocation that runs alone
\* and whose next handler leaves l.wrapped in the wrapper (and, on the
\* pass-through branch, wrote the response itself)
HandledAlone(l) ==
    LET branch == dispatch(variant, l.inbound) IN
    CASE branch = "options" ->
             l.caller = realWriteHeader(addCORSHeaders(NewCaller), 200,
                                        "proxy")
      [] branch = "chat" ->
             LET res == processOpenAIRequest(variant, config, NewCaller,
                                             l.inbound)
             IN IF res.err
                THEN l.caller = httpError(res.rw, res.msg, 500)
                ELSE \E id \in CompletionIDs, now \in Times :
                         LET pr == processResponse(variant, res.rw,
                                                   l.wrapped, res.model, id,
                                                   now)
                         IN l.caller = IF pr.err
                                       THEN failOpen(pr.rw, l.wrapped)
                                       ELSE pr.rw
      [] branch = "models" ->
             \E now \in Times :
                 LET mr == modelsResponse(variant, NewCaller, l.wrapped, now)
                 IN l.caller = IF mr.err
                               THEN httpError(mr.rw, mr.msg, 500)
                               ELSE mr.rw
      [] branch = "pass" ->
             /\ l.caller.proxyWriteHeader = 0
             /\ l.caller.proxyWrite = 0
             /\ l.caller.proxyHeader = 0

\* C26: under any interleaving of two invocations of ServeHTTP on one
\* Proxy no step changes the configuration, and the response of each
\* finished invocation is the one its own request and its own next
\* handler's response give when the request is handled alone.
C26_InvocationsIndependent ==
    /\ [][config' = config]_vars
    /\ []((pc = "done" => HandledAlone(Locals))
          /\ (tin.pc = "done" => HandledAlone(tin)))

\* C26 witness: two chat requests naming different models were in flight
\* together, the second was forwarded while the first waited for its next
\* handler, and both got their transformed response.
C26_Witness ==
    /\ pc = "done"
    /\ tin.pc = "done"
    /\ route = "chat"
    /\ tin.route = "chat"
    /\ origModel # tin.origModel
    /\ "write" \in Range(ops)
    /\ "write" \in Range(tin.ops)

\* the RFC3339 timestamps among the backend models and their epoch seconds
EpochSeconds ==
    [s \in {"2023-01-01T00:00:00Z", "1970-01-01T00:00:10Z"} |->
        IF s = "2023-01-01T00:00:00Z" THEN 1672531200 ELSE 10]

\* C27: each listed model's created value is the epoch seconds of its
\* timeCreated when that is an RFC3339 timestamp and the time of the call
\* otherwise; a timestamp that does not parse removes no model from the
\* listing and the listing is still produced.
C27_CreatedOrNow ==
    pc = "m-out" =>
        LET keep == SelectSeq(tin.Items, Included) IN
        /\ tout.Object = "list"
        /\ Len(tout.Data) = Len(keep)
        /\ \E now \in Times :
               \A i \in 1..Len(keep) :
                   /\ tout.Data[i].ID = keep[i].ID
                   /\ tout.Data[i].Created =
                          IF keep[i].TimeCreated \in DOMAIN EpochSeconds
                          THEN EpochSeconds[keep[i].TimeCreated]
                          ELSE now

\* C27 witness: a model created "yesterday" was listed with the time of
\* the call, next to one listed with its parsed timestamp.
C27_Witness ==
    /\ pc = "m-out"
    /\ Len(tin.Items) = 2
    /\ tin.Items[1].TimeCreated = "yesterday"
    /\ tin.Items[2].ID = "ocid1.model.a"
    /\ Len(tout.Data) = 2
    /\ tout.Data[1].Created = 1700000001
    /\ tout.Data[2].Created = 1672531200

\* C28: for every request and every outcome the plugin calls WriteHeader on
\* the real writer at most once and writes at most one body to it.
C28_SingleStatusAndBody ==
    /\ caller.proxyWriteHeader <= 1
    /\ caller.proxyWrite <= 1

\* C29: whenever a transformed chat or models response is written, the
\* caller receives status 200, Content-Type application/json and a
\* Content-Length that is the byte length of the body written; with the
\* codec of the first revision that body is one gzip member or deflate
\* stream holding the JSON when the next handler declared that encoding,
\* and the JSON itself in every other case.
C29_SuccessHeaders ==
    (pc = "done" /\ (ChatRouted \/ ModelsRouted) /\ "write" \in Range(ops))
        => /\ wrapped.statusCode = 200
           /\ caller.status = 200
           /\ caller.sent["Content-Type"] = "application/json"
           /\ caller.sent["Content-Length"] = ToString(ByteLen(caller.body))
           /\ LET enc == caller.sent["Content-Encoding"] IN
              IF variant = 1 /\ enc \in {"gzip", "deflate"}
              THEN /\ Len(caller.body) = 1
                   /\ caller.body[1].a = enc
                   /\ IsJSON(caller.body[1].z)
              ELSE IsJSON(caller.body)

\* C29 witness: a models listing that came gzip-encoded went out as one
\* gzip member with its own length in Content-Length.
C29_Witness ==
    /\ pc = "done"
    /\ ModelsRouted
    /\ "write" \in Range(ops)
    /\ caller.sent["Content-Encoding"] = "gzip"
    /\ Len(caller.body) = 1
    /\ caller.body[1].a = "gzip"
    /\ caller.sent["Content-Length"] = "58"
    /\ caller.status = 200

\* C30: the wrapper's recorded status is 200 as long as the next handler
\* has not called WriteHeader and after each call is the code of that call;
\* each Write appends its bytes to the recorded body and changes nothing
\* else; a next handler that returns having written a body and no status
\* is treated as a success: a response step is taken on its body, and the
\* body is written transformed when it is a backend response.
C30_WrapperRecords ==
    /\ []((pc \in {"next", "returned", "done"} /\ Len(fwd) = 1
           /\ fwd[1].writer = "wrapped") =>
            /\ wrapped.nWriteHeader = 0 => wrapped.statusCode = 200
            /\ wrapped.nWrite = Len(wrapped.body)
            /\ (pc = "done" /\ wrapped.nWriteHeader = 0) =>
                   /\ Range(ops) \cap ResponseSteps # {}
                   /\ (wrapped.body = <<JsonAtom(ChatRespDoc)>>
                       /\ ChatRouted
                       /\ caller.sent["Content-Encoding"] = "")
                          => "write" \in Range(ops))
    /\ [][(pc = "next" /\ sink = "wrapped") =>
            /\ \A code \in StatusCodes :
                   NextWriteHeader(code) =>
                       /\ wrapped'.statusCode = code
                       /\ wrapped'.body = wrapped.body
            /\ \A atom \in DownstreamAtoms :
                   NextWrite(atom) =>
                       /\ wrapped'.body = Append(wrapped.body, atom)
                       /\ wrapped'.statusCode = wrapped.statusCode]_vars

\* C30 witness: the next handler of a chat request wrote a backend response
\* without calling WriteHeader, and the caller got it transformed with
\* status 200.
C30_Witness ==
    /\ pc = "done"
    /\ ChatRouted
    /\ wrapped.nWriteHeader = 0
    /\ wrapped.statusCode = 200
    /\ wrapped.body = <<JsonAtom(ChatRespDoc)>>
    /\ "write" \in Range(ops)
    /\ caller.status = 200

====
